---- MODULE Spec2Model ----
(***************************************************************************)
(* A model of the crispy data wrappers (src/crispy/crisp.py) and of the    *)
(* Inversion wrapper (src/crisPy2/inversions.py).                          *)
(*                                                                         *)
(* An observation is a record holding the backing store (file.data and     *)
(* file.header), the WCS, the recorded index and the rotate flag.  Optional *)
(* attributes (full_frame, rot_data, ind, wcs) are sequences of length 0   *)
(* (unset / None) or 1 (set).  A call records its name and arguments in    *)
(* op, its return value in ret and the exception it raised in err.         *)
(***************************************************************************)
EXTENDS Integers, Sequences, FiniteSets, TLC

VARIABLES list, seq_full_frame, op, ret, err, built

vars == <<list, seq_full_frame, op, ret, err, built>>

----------------------------------------------------------------------------
(* Bounds of the model *)

\* largest number of observations in a CRISPSequence
MaxObs == 3
\* side length (in model pixels) of the largest raw frame
MaxDims == 2

----------------------------------------------------------------------------
(* Arrays *)

\* np.nan: a pixel value that compares False with everything
NaN == 99

\* the stored pixel type
DTypes == {"float32", "float64"}

\* pixel contents of the raw frames
RawPx == {<<0 - 1, 2>>, <<1, 2>>}

\* An array: its pixels, dtype, rank, the side length of its spatial frame,
\* the angle of the observed sub-frame within it, and how it was produced.
Array(px, dtype, ndim, dims, angle, kind) ==
    [px |-> px, dtype |-> dtype, ndim |-> ndim, dims |-> dims,
     angle |-> angle, kind |-> kind]

None == [t |-> "None"]
NoErr == "none"

\* keys of the crop metadata
CropKeys == {"frame_dims", "x_min", "x_max", "y_min", "y_max", "angle"}

\* header assignment h[k] = v
HSet(h, k, v) == [x \in (DOMAIN h) \cup {k} |-> IF x = k THEN v ELSE h[x]]

\* for k, v in d.items(): h[k] = v
HUpdate(h, d) ==
    [x \in (DOMAIN h) \cup (DOMAIN d) |-> IF x \in DOMAIN d THEN d[x] ELSE h[x]]

\* utils.rotate_crop_data: the rotated sub-frame without its border, and the
\* metadata needed to put it back.  Frames too small to hold a sub-frame are
\* rejected.
rotate_crop_data(d) ==
    IF d.ndim < 2 \/ d.dims < 2
    THEN [err |-> "ValueError"]
    ELSE [err |-> NoErr,
          crop |-> Array(d.px, d.dtype, d.ndim, d.dims - 1, 0, "crop"),
          crop_dict |-> [frame_dims |-> d.dims, x_min |-> 0, x_max |-> d.dims - 1,
                         y_min |-> 0, y_max |-> d.dims - 1, angle |-> d.angle]]

\* utils.rotate_crop_aligned_data: two co-aligned frames cropped with one set
\* of metadata.
rotate_crop_aligned_data(a, b) ==
    IF a.ndim < 2 \/ a.dims < 2 \/ b.ndim < 2 \/ b.dims # a.dims
    THEN [err |-> "ValueError"]
    ELSE [err |-> NoErr,
          crop_a |-> Array(a.px, a.dtype, a.ndim, a.dims - 1, 0, "crop"),
          crop_b |-> Array(b.px, b.dtype, b.ndim, b.dims - 1, 0, "crop"),
          crop_dict |-> [frame_dims |-> a.dims, x_min |-> 0, x_max |-> a.dims - 1,
                         y_min |-> 0, y_max |-> a.dims - 1, angle |-> a.angle]]

\* utils.reconstruct_full_frame: the cropped frame rotated back into a frame
\* of the recorded size.
reconstruct_full_frame(crop_dict, d) ==
    IF d.ndim < 2 \/ crop_dict.x_max - crop_dict.x_min > crop_dict.frame_dims
    THEN [err |-> "ValueError"]
    ELSE [err |-> NoErr,
          full |-> Array(d.px, d.dtype, d.ndim, crop_dict.frame_dims,
                         crop_dict.angle, "full")]

----------------------------------------------------------------------------
(* Headers *)

\* a string as the sequence of its characters
DateAvg == <<"2","0","1","4","-","0","9","-","0","6","T",
             "1","6",":","5","3",":","1","2",".","3","4","5">>
TimeObs == <<"0","9",":","0","0",":","0","0">>
DateObs == <<"2","0","1","5","/","0","1","/","0","2">>

\* Python s[-n:]
SliceLast(s, n) == IF Len(s) <= n THEN s ELSE SubSeq(s, Len(s) - n + 1, Len(s))
\* Python s[:-n]
SliceDropLast(s, n) == IF Len(s) <= n THEN <<>> ELSE SubSeq(s, 1, Len(s) - n)
\* Python s[-n] on a sequence with at least n elements
FromEnd(s, n) == s[Len(s) - n + 1]

\* the FITS naming convention (wavelengths in units of 0.001 Angstrom)
HdrFITS ==
    [x \in {"DATE-AVG", "TWAVE1", "WWIDTH1", "NAXIS1", "NAXIS2", "NAXIS3",
            "NAXIS4", "WDESC1", "CRVAL1", "CRVAL2", "CDELT1", "CDELT2"} |->
       CASE x = "DATE-AVG" -> DateAvg
         [] x = "TWAVE1" -> 8542126
         [] x = "WWIDTH1" -> 11
         [] x = "NAXIS1" -> 31
         [] x = "NAXIS2" -> 32
         [] x = "NAXIS3" -> 11
         [] x = "NAXIS4" -> 4
         [] x = "WDESC1" -> "Ca II 8542"
         [] x = "CRVAL1" -> 510
         [] x \in {"CDELT1", "CDELT2"} -> 57
         [] x = "CRVAL2" -> 0 - 260]

\* the alternate naming convention
HdrAlt ==
    [x \in {"time_obs", "date_obs", "crval", "dimensions", "element",
            "pixel_scale"} |->
       CASE x = "time_obs" -> TimeObs
         [] x = "date_obs" -> DateObs
         [] x = "pixel_scale" -> 59
         [] x = "crval" -> <<1, 6563, 0 - 100, 200>>
         [] x = "dimensions" -> <<4, 15, 42, 41>>
         [] x = "element" -> "H alpha"]

\* a header restricted to some of its keys
Restrict(h, ks) == [x \in (DOMAIN h) \cap ks |-> h[x]]

\* crop metadata already present in a file that was saved after a rotation
SavedCrop == [frame_dims |-> MaxDims, x_min |-> 0, x_max |-> MaxDims - 1,
              y_min |-> 0, y_max |-> MaxDims - 1, angle |-> 30]

----------------------------------------------------------------------------
(* class CRISP *)

\* the result of a call: the object afterwards, the return value, the error
Result(self, r, e) == [self |-> self, ret |-> r, err |-> e]

\* the WCS built from a header: one world axis per array axis
WCSOf(d) == [rank |-> d.ndim, naxis |-> d.ndim]

\* an object none of whose attributes has been set
Blank(cls) ==
    [cls |-> cls, attrs |-> {}, file |-> <<>>, wcs |-> <<>>, nonu |-> FALSE,
     rotate |-> FALSE, ind |-> <<>>, full_frame |-> <<>>, rot_data |-> <<>>,
     wvl |-> <<>>]

\* a variant of CRISP.__init__ that rejects the input only after the
\* attributes that do not depend on it have been set
CRISP__init__late_reject(cls, filename, wcs, nonu) ==
    IF filename.kind \notin {"fits", "zarr", "ObjDict"}
    THEN Result([Blank(cls) EXCEPT !.attrs = {"nonu", "uncertainty", "mask"},
                                   !.nonu = nonu],
                None, "NotImplementedError")
    ELSE LET file == [data |-> filename.data, header |-> filename.header,
                      backend |-> filename.kind]
             w == IF wcs = <<>> /\ filename.kind \in {"fits", "zarr"}
                  THEN <<WCSOf(filename.data)>>
                  ELSE wcs
         IN  Result([Blank(cls) EXCEPT
                       !.attrs = {"file", "wcs", "nonu", "uncertainty", "mask",
                                  "aa", "a", "l", "D", "rotate"},
                       !.file = <<file>>,
                       !.wcs = w,
                       !.nonu = nonu,
                       !.rotate = (CropKeys \subseteq DOMAIN filename.header)],
                    None, NoErr)

\* CRISP.__init__.  filename is a record: kind "fits" / "zarr" (a str naming
\* such a file, with the data and header stored there), "str" (any other
\* str), "ObjDict" (with its data and header) or "other" (any other type).
CRISP__init__(cls, filename, wcs, nonu) ==
    IF filename.kind \notin {"fits", "zarr", "ObjDict"}
    THEN Result(Blank(cls), None, "NotImplementedError")
    ELSE LET file == [data |-> filename.data, header |-> filename.header,
                      backend |-> filename.kind]
             w == IF wcs = <<>> /\ filename.kind \in {"fits", "zarr"}
                  THEN <<WCSOf(filename.data)>>
                  ELSE wcs
         IN  Result([Blank(cls) EXCEPT
                       !.attrs = {"file", "wcs", "nonu", "uncertainty", "mask",
                                  "aa", "a", "l", "D", "rotate"},
                       !.file = <<file>>,
                       !.wcs = w,
                       !.nonu = nonu,
                       !.rotate = (CropKeys \subseteq DOMAIN filename.header)],
                    None, NoErr)

\* CRISPNonU.__init__
CRISPNonU__init__(filename, wcs, nonu) ==
    LET r == CRISP__init__("CRISPNonU", filename, wcs, nonu) IN
    IF r.err # NoErr THEN r
    ELSE IF filename.kind = "fits"
    THEN Result([r.self EXCEPT !.attrs = @ \cup {"wvl"}, !.wvl = <<"hdu1">>],
                None, NoErr)
    ELSE IF "wavels" \in DOMAIN filename.header
    THEN Result([r.self EXCEPT !.attrs = @ \cup {"wvl"},
                               !.wvl = <<filename.header["wavels"]>>],
                None, NoErr)
    ELSE Result(r.self, None, "KeyError")

\* construction of an observation of class cls
Construct(cls, filename, wcs, nonu) ==
    IF cls = "CRISPNonU"
    THEN CRISPNonU__init__(filename, wcs, nonu)
    ELSE CRISP__init__(cls, filename, wcs, nonu)

\* CRISP.data: self.file.data[...]
CRISP_data(self) == self.file[1].data

\* whether self.file.data[...] shares memory with the stored array: numpy
\* arrays (FITS HDU, ObjDict) give a view, a zarr array gives a fresh copy
DataIsView(self) == self.file[1].backend # "zarr"

\* CRISP.header: dict(self.file.header)
CRISP_header(self) == self.file[1].header

\* a variant of CRISP.rotate_crop that records full_frame after the stored
\* array has been replaced
CRISP_rotate_crop_late_full_frame(self, sep) ==
    LET rc == rotate_crop_data(CRISP_data(self)) IN
    IF sep
    THEN IF rc.err # NoErr
         THEN Result(self, None, rc.err)
         ELSE Result(self, [t |-> "tuple", crop |-> rc.crop, crop_dict |-> rc.crop_dict],
                     NoErr)
    ELSE IF rc.err # NoErr
         THEN Result(self, None, rc.err)
         ELSE Result([self EXCEPT !.file[1].header = HUpdate(self.file[1].header, rc.crop_dict),
                                  !.file[1].data = rc.crop,
                                  !.full_frame = <<rc.crop>>,
                                  !.rotate = TRUE],
                     None, NoErr)

\* a variant of CRISP.rotate_crop that ignores sep
CRISP_rotate_crop_ignores_sep(self, sep) ==
    LET rc == rotate_crop_data(CRISP_data(self))
        s1 == [self EXCEPT !.full_frame = <<CRISP_data(self)>>]
    IN  IF rc.err # NoErr
        THEN Result(s1, None, rc.err)
        ELSE Result([s1 EXCEPT !.file[1].header = HUpdate(self.file[1].header, rc.crop_dict),
                               !.file[1].data = rc.crop,
                               !.rotate = TRUE],
                    None, NoErr)

\* CRISP.rotate_crop
CRISP_rotate_crop(self, sep) ==
    LET rc == rotate_crop_data(CRISP_data(self)) IN
    IF sep
    THEN IF rc.err # NoErr
         THEN Result(self, None, rc.err)
         ELSE Result(self, [t |-> "tuple", crop |-> rc.crop, crop_dict |-> rc.crop_dict],
                     NoErr)
    ELSE LET s1 == [self EXCEPT !.full_frame = <<CRISP_data(self)>>] IN
         IF rc.err # NoErr
         THEN Result(s1, None, rc.err)
         ELSE Result([s1 EXCEPT !.file[1].header = HUpdate(self.file[1].header, rc.crop_dict),
                                !.file[1].data = rc.crop,
                                !.rotate = TRUE],
                     None, NoErr)

\* a variant of CRISP.reconstruct_full_frame that patches the header with
\* the frame size of the array it stores
CRISP_reconstruct_full_frame_patches_header(self, sep) ==
    LET h == CRISP_header(self) IN
    IF "frame_dims" \notin DOMAIN h
    THEN Result(self, None, "AssertionError")
    ELSE IF ~ (CropKeys \subseteq DOMAIN h)
    THEN Result(self, None, "KeyError")
    ELSE LET crop_dict == [k \in CropKeys |-> h[k]]
             rf == reconstruct_full_frame(crop_dict, CRISP_data(self))
         IN  IF sep
             THEN IF rf.err # NoErr
                  THEN Result(self, None, rf.err)
                  ELSE Result(self, [t |-> "array", a |-> rf.full], NoErr)
             ELSE LET s1 == [self EXCEPT !.rot_data = <<CRISP_data(self)>>] IN
                  IF rf.err # NoErr
                  THEN Result(s1, None, rf.err)
                  ELSE Result([s1 EXCEPT !.file[1].data = rf.full,
                                         !.file[1].header = HSet(h, "x_min", 1),
                                         !.rotate = FALSE],
                              None, NoErr)

\* a variant of CRISP.reconstruct_full_frame that keeps the stored array in
\* rot_data before it looks the crop keys up
CRISP_reconstruct_full_frame_keeps_first(self, sep) ==
    LET h == CRISP_header(self)
        s1 == IF sep THEN self ELSE [self EXCEPT !.rot_data = <<CRISP_data(self)>>]
    IN
    IF "frame_dims" \notin DOMAIN h
    THEN Result(s1, None, "AssertionError")
    ELSE IF ~ (CropKeys \subseteq DOMAIN h)
    THEN Result(s1, None, "KeyError")
    ELSE LET crop_dict == [k \in CropKeys |-> h[k]]
             rf == reconstruct_full_frame(crop_dict, CRISP_data(self))
         IN  IF sep
             THEN IF rf.err # NoErr
                  THEN Result(self, None, rf.err)
                  ELSE Result(self, [t |-> "array", a |-> rf.full], NoErr)
             ELSE IF rf.err # NoErr
                  THEN Result(s1, None, rf.err)
                  ELSE Result([s1 EXCEPT !.file[1].data = rf.full, !.rotate = FALSE],
                              None, NoErr)

\* CRISP.reconstruct_full_frame
CRISP_reconstruct_full_frame(self, sep) ==
    LET h == CRISP_header(self) IN
    IF "frame_dims" \notin DOMAIN h
    THEN Result(self, None, "AssertionError")
    ELSE IF ~ (CropKeys \subseteq DOMAIN h)
    THEN Result(self, None, "KeyError")
    ELSE LET crop_dict == [k \in CropKeys |-> h[k]]
             rf == reconstruct_full_frame(crop_dict, CRISP_data(self))
         IN  IF sep
             THEN IF rf.err # NoErr
                  THEN Result(self, None, rf.err)
                  ELSE Result(self, [t |-> "array", a |-> rf.full], NoErr)
             ELSE LET s1 == [self EXCEPT !.rot_data = <<CRISP_data(self)>>] IN
                  IF rf.err # NoErr
                  THEN Result(s1, None, rf.err)
                  ELSE Result([s1 EXCEPT !.file[1].data = rf.full, !.rotate = FALSE],
                              None, NoErr)

----------------------------------------------------------------------------
(* WCS sub-slice selection *)

\* hasattr(self, "ind")
HasInd(self) == self.ind # <<>>

\* isinstance(self.ind[k], slice) for the k-th component (1-based)
IsSlice(self, k) == self.ind[1].comps[k] = "slice"

\* a query of the WCS library: which WCS object is sliced, and how
Query(base, sl) == [err |-> NoErr, base |-> base, sl |-> sl]
Raise(e) == [err |-> e]

\* the error, if any, of evaluating self.ind[k] with k counted from the
\* front (k > 0) or from the back (k < 0)
IndErr(self, k) ==
    IF self.ind[1].scalar THEN "TypeError"
    ELSE IF (IF k > 0 THEN k ELSE 0 - k) > Len(self.ind[1].comps) THEN "IndexError"
    ELSE NoErr

\* self.ind[k] for k counted from the back
IndBack(self, k) == Len(self.ind[1].comps) - k + 1

\* the error of slicing a WCS of naxis axes with n indices
SliceErr(naxis, n) == IF n > naxis THEN "ValueError" ELSE NoErr

\* CRISP.wave: the sub-slice whose array_index_to_world(idx) is returned
CRISP_wave(self) ==
    IF self.wcs = <<>> THEN Raise("AttributeError")
    ELSE LET w == self.wcs[1] IN
    IF w.rank = 4
    THEN IF HasInd(self)
         THEN IF IndErr(self, 2) # NoErr THEN Raise(IndErr(self, 2))
              ELSE IF SliceErr(w.naxis, 4) # NoErr THEN Raise(SliceErr(w.naxis, 4))
              ELSE IF IsSlice(self, 2)
              THEN Query("_wcs", <<"0", "ind[1]", "0", "0">>)
              ELSE Query("_wcs", <<"0", ":", "0", "0">>)
         ELSE Query("wcs", <<"0", ":", "0", "0">>)
    ELSE IF w.rank = 3
    THEN IF HasInd(self) /\ w.naxis = 4
         THEN IF IndErr(self, 2) # NoErr THEN Raise(IndErr(self, 2))
              ELSE IF IsSlice(self, 2)
              THEN Query("_wcs", <<"0", "ind[1]", "0", "0">>)
              ELSE Query("_wcs", <<"0", ":", "0", "0">>)
         ELSE IF HasInd(self)
              THEN IF IndErr(self, 1) # NoErr THEN Raise(IndErr(self, 1))
                   ELSE IF SliceErr(w.naxis, 3) # NoErr
                   THEN Raise(SliceErr(w.naxis, 3))
                   ELSE IF IsSlice(self, 1)
                   THEN Query("_wcs", <<"ind[0]", "0", "0">>)
                   ELSE Query("_wcs", <<":", "0", "0">>)
              ELSE Query("wcs", <<":", "0", "0">>)
    ELSE IF w.rank = 2
    THEN IF HasInd(self)
         THEN IF w.naxis = 4 THEN Query("_wcs", <<"0", ":", "0", "0">>)
              ELSE IF w.naxis = 3 THEN Query("_wcs", <<":", "0", "0">>)
              ELSE Raise("IndexError")
         ELSE Raise("IndexError")
    ELSE IF w.rank = 1
    THEN Query("wcs", <<":">>)
    ELSE Raise("NotImplementedError")

\* the selection shared by the three output modes of CRISP.to_lonlat and by
\* CRISP.from_lonlat
LonLatSelect(self) ==
    IF self.wcs = <<>> THEN Raise("AttributeError")
    ELSE LET w == self.wcs[1]
             \* the four cases on the last two index components, under the
             \* leading indices pre
             ByInd(pre) ==
                 IF IndErr(self, 0 - 2) # NoErr THEN Raise(IndErr(self, 0 - 2))
                 ELSE LET y == IsSlice(self, IndBack(self, 2))
                          x == IsSlice(self, IndBack(self, 1))
                          sl == IF y /\ x THEN pre \o <<"ind[-2]", "ind[-1]">>
                                ELSE IF y THEN pre \o <<"ind[-2]">>
                                ELSE IF x THEN pre \o <<":", "ind[-1]">>
                                ELSE pre
                      IN  IF SliceErr(w.naxis, Len(sl)) # NoErr
                          THEN Raise(SliceErr(w.naxis, Len(sl)))
                          ELSE Query("_wcs", sl)
         IN
    IF w.rank = 4
    THEN IF HasInd(self) THEN ByInd(<<"0", "0">>) ELSE Query("wcs", <<"0", "0">>)
    ELSE IF w.rank = 3
    THEN IF HasInd(self) /\ w.naxis = 4 THEN ByInd(<<"0", "0">>)
         ELSE IF HasInd(self) THEN ByInd(<<"0">>)
         ELSE Query("wcs", <<"0">>)
    ELSE IF w.rank = 2
    THEN Query("wcs", <<>>)
    ELSE Raise("NotImplementedError")

\* CRISP.to_lonlat(y, x, coord, unit)
CRISP_to_lonlat(self, coord, unit) == LonLatSelect(self)

\* a variant of from_lonlat that, when only the x component of the recorded
\* index is a slice, selects the sub-slice of the case where only the y
\* component is
CRISP_from_lonlat_swapped_case(self) ==
    LET q == LonLatSelect(self) IN
    IF q.err = NoErr /\ Len(q.sl) >= 2
       /\ q.sl[Len(q.sl)] = "ind[-1]" /\ q.sl[Len(q.sl) - 1] = ":"
    THEN Query(q.base, SubSeq(q.sl, 1, Len(q.sl) - 2) \o <<"ind[-2]">>)
    ELSE q

\* CRISP.from_lonlat(lon, lat)
CRISP_from_lonlat(self) == LonLatSelect(self)

\* the WCS library, as far as the lookups need it: every pixel axis of a WCS
\* maps a pixel index to index + offset, where the offset is the pixel at
\* which a slice applied to that axis starts (0 for an axis kept whole)
SliceStart(c) ==
    CASE c = "ind[-2]" -> 1
      [] c = "ind[-1]" -> 2
      [] c \in {"ind[0]", "ind[1]"} -> 3
      [] OTHER -> 0

\* the offsets of the pixel axes of the object's own (sliced) WCS
OwnAxes(self) ==
    IF HasInd(self) /\ ~ self.ind[1].scalar
    THEN LET comps == self.ind[1].comps
             n == Len(comps)
             kept == {a \in 1..n : comps[a] = "slice"}
             \* the k-th kept component
             nth[k \in 1..Cardinality(kept)] ==
                 CHOOSE a \in kept : Cardinality({b \in kept : b < a}) = k - 1
         IN  [k \in 1..Cardinality(kept) |->
                 IF nth[k] = n THEN 2 ELSE IF nth[k] = n - 1 THEN 1 ELSE 3]
    ELSE [k \in 1..self.wcs[1].rank |-> 0]

\* the offsets of the pixel axes left by a query
QueryAxes(self, q) ==
    LET base == IF q.base = "_wcs" THEN [a \in 1..self.wcs[1].naxis |-> 0]
                ELSE OwnAxes(self)
        sliced == [a \in DOMAIN base |->
                     IF a <= Len(q.sl) /\ q.sl[a] # ":" THEN SliceStart(q.sl[a])
                     ELSE base[a]]
        left == {a \in DOMAIN base : ~ (a <= Len(q.sl) /\ q.sl[a] = "0")}
        nth[k \in 1..Cardinality(left)] ==
            CHOOSE a \in left : Cardinality({b \in left : b < a}) = k - 1
    IN  [k \in 1..Cardinality(left) |-> sliced[nth[k]]]

\* wcs.array_index_to_world(*idx): one world value per pixel axis
array_index_to_world(self, q, idx) ==
    LET axes == QueryAxes(self, q) IN
    IF Len(axes) # Len(idx) THEN Raise("ValueError")
    ELSE [err |-> NoErr, world |-> [k \in DOMAIN idx |-> idx[k] + axes[k]]]

\* wcs.world_to_array_index(world): the inverse
world_to_array_index(self, q, world) ==
    LET axes == QueryAxes(self, q) IN
    IF Len(axes) # Len(world) THEN Raise("ValueError")
    ELSE [err |-> NoErr, index |-> [k \in DOMAIN world |-> world[k] - axes[k]]]

\* a variant of wave that returns the coordinate of a spectrum (rank 1) as
\* the WCS gives it, in nm
Wave_rank1_as_given(self, idx) ==
    LET q == CRISP_wave(self) IN
    IF q.err # NoErr THEN q
    ELSE LET sc == array_index_to_world(self, q, <<idx>>) IN
         IF sc.err # NoErr THEN sc
         ELSE IF self.wcs[1].rank = 1
         THEN [err |-> NoErr, value |-> sc.world[1], unit |-> "nm", query |-> q]
         ELSE [err |-> NoErr, value |-> 10 * sc.world[1], unit |-> "Angstrom",
               query |-> q]

\* the value CRISP.wave(idx) returns: the spectral coordinate of the
\* selected sub-slice, which the WCS gives in nm, converted to Angstrom
\* (<< u.Angstrom)
Wave(self, idx) ==
    LET q == CRISP_wave(self) IN
    IF q.err # NoErr THEN q
    ELSE LET sc == array_index_to_world(self, q, <<idx>>) IN
         IF sc.err # NoErr THEN sc
         ELSE [err |-> NoErr, value |-> 10 * sc.world[1], unit |-> "Angstrom",
               query |-> q]

\* the value CRISP.to_lonlat(y, x, coord, unit) returns: the longitude and
\* latitude as a SkyCoord, as quantities or as numbers
ToLonLat(self, y, x, coord, unit) ==
    LET q == CRISP_to_lonlat(self, coord, unit) IN
    IF q.err # NoErr THEN q
    ELSE LET sc == array_index_to_world(self, q, <<y, x>>) IN
         IF sc.err # NoErr THEN sc
         ELSE [err |-> NoErr,
               as |-> IF coord THEN "SkyCoord" ELSE IF unit THEN "Quantity" ELSE "float",
               lon |-> sc.world[2], lat |-> sc.world[1], query |-> q]

\* a variant of from_lonlat that hands an observation of rank 1 to its own
\* WCS, as it does one of rank 2
FromLonLat_accepts_rank1(self, lon, lat) ==
    LET q == IF self.wcs # <<>> /\ self.wcs[1].rank = 1
             THEN Query("wcs", <<>>)
             ELSE CRISP_from_lonlat(self)
    IN
    IF q.err # NoErr THEN q
    ELSE LET ix == world_to_array_index(self, q, <<lat, lon>>) IN
         IF ix.err # NoErr THEN ix
         ELSE [err |-> NoErr, y |-> ix.index[1], x |-> ix.index[2], query |-> q]

\* the value CRISP.from_lonlat(lon, lat) returns: the indices (y, x)
FromLonLat(self, lon, lat) ==
    LET q == CRISP_from_lonlat(self) IN
    IF q.err # NoErr THEN q
    ELSE LET ix == world_to_array_index(self, q, <<lat, lon>>) IN
         IF ix.err # NoErr THEN ix
         ELSE [err |-> NoErr, y |-> ix.index[1], x |-> ix.index[2], query |-> q]

----------------------------------------------------------------------------
(* Summaries and titles *)

\* str(x)
Str(x) == <<"str", x>>

\* np.round(x, decimals=2) of a value held in units of 0.001: the result in
\* units of 0.01, halves rounded to even
Round2(x) ==
    LET q == x \div 10
        r == x % 10
    IN  IF r > 5 THEN q + 1
        ELSE IF r < 5 THEN q
        ELSE IF q % 2 = 0 THEN q ELSE q + 1

\* [self.header[f"NAXIS{j+1}"] for j in reversed(range(self.data.ndim))]
NaxisKey(j) == CASE j = 1 -> "NAXIS1" [] j = 2 -> "NAXIS2"
                 [] j = 3 -> "NAXIS3" [] OTHER -> "NAXIS4"
NaxisList(h, ndim) == [i \in 1..ndim |-> h[NaxisKey(ndim - i + 1)]]

\* the keys the try block of __str__ reads
StrFITSKeys(cls, ndim) ==
    {"DATE-AVG", "WDESC1", "CRVAL1", "CRVAL2"}
      \cup {NaxisKey(j) : j \in 1..ndim}
      \cup (IF cls = "CRISPWideband" THEN {} ELSE {"TWAVE1", "WWIDTH1"})
\* the keys its except block reads
StrAltKeys == {"time_obs", "date_obs", "crval", "dimensions", "element"}

\* a variant of __str__ that falls back key by key: every field is read
\* from the FITS key when that key is present
CRISP__str__per_field(self) ==
    LET h == CRISP_header(self)
        nd == CRISP_data(self).ndim
        wide == self.cls = "CRISPWideband"
        has(k) == k \in DOMAIN h
    IN  IF StrFITSKeys(self.cls, nd) \subseteq DOMAIN h \/ StrAltKeys \subseteq DOMAIN h
        THEN [err |-> NoErr,
              time |-> IF has("DATE-AVG") THEN SliceLast(h["DATE-AVG"], 12)
                       ELSE h["time_obs"],
              date |-> IF has("DATE-AVG") THEN SliceDropLast(h["DATE-AVG"], 13)
                       ELSE h["date_obs"],
              cl |-> IF wide THEN <<>>
                     ELSE IF has("TWAVE1") THEN <<Str(Round2(h["TWAVE1"]))>>
                     ELSE <<Str(FromEnd(h["crval"], 3))>>,
              wwidth |-> IF wide THEN <<>>
                         ELSE IF has("WWIDTH1") THEN <<Str(h["WWIDTH1"])>>
                         ELSE <<Str(FromEnd(h["dimensions"], 3))>>,
              shape |-> IF {NaxisKey(j) : j \in 1..nd} \subseteq DOMAIN h
                        THEN Str(NaxisList(h, nd)) ELSE Str(h["dimensions"]),
              el |-> IF has("WDESC1") THEN h["WDESC1"] ELSE h["element"],
              pointing_x |-> IF has("CRVAL1") THEN Str(h["CRVAL1"])
                             ELSE Str(FromEnd(h["crval"], 1)),
              pointing_y |-> IF has("CRVAL2") THEN Str(h["CRVAL2"])
                             ELSE Str(FromEnd(h["crval"], 2))]
        ELSE Raise("KeyError")

\* CRISP.__str__, CRISPWideband.__str__ and CRISPNonU.__str__: the fields of
\* the summary as the f-string prints them, numbers through str (cl and
\* wwidth are absent from the wideband summary)
CRISP__str__(self) ==
    LET h == CRISP_header(self)
        nd == CRISP_data(self).ndim
        wide == self.cls = "CRISPWideband"
    IN  IF StrFITSKeys(self.cls, nd) \subseteq DOMAIN h
        THEN [err |-> NoErr,
              time |-> SliceLast(h["DATE-AVG"], 12),
              date |-> SliceDropLast(h["DATE-AVG"], 13),
              cl |-> IF wide THEN <<>> ELSE <<Str(Round2(h["TWAVE1"]))>>,
              wwidth |-> IF wide THEN <<>> ELSE <<Str(h["WWIDTH1"])>>,
              shape |-> Str(NaxisList(h, nd)),
              el |-> h["WDESC1"],
              pointing_x |-> Str(h["CRVAL1"]),
              pointing_y |-> Str(h["CRVAL2"])]
        ELSE IF StrAltKeys \subseteq DOMAIN h
        THEN [err |-> NoErr,
              time |-> h["time_obs"],
              date |-> h["date_obs"],
              cl |-> IF wide THEN <<>> ELSE <<Str(FromEnd(h["crval"], 3))>>,
              wwidth |-> IF wide THEN <<>> ELSE <<Str(FromEnd(h["dimensions"], 3))>>,
              shape |-> Str(h["dimensions"]),
              el |-> h["element"],
              pointing_x |-> Str(FromEnd(h["crval"], 1)),
              pointing_y |-> Str(FromEnd(h["crval"], 2))]
        ELSE Raise("KeyError")

\* CRISP.time
CRISP_time(self) ==
    LET h == CRISP_header(self) IN
    IF "DATE-AVG" \in DOMAIN h THEN [err |-> NoErr, v |-> SliceLast(h["DATE-AVG"], 12)]
    ELSE IF "time_obs" \in DOMAIN h THEN [err |-> NoErr, v |-> h["time_obs"]]
    ELSE Raise("KeyError")

\* CRISP.date
CRISP_date(self) ==
    LET h == CRISP_header(self) IN
    IF "DATE-AVG" \in DOMAIN h
    THEN [err |-> NoErr, v |-> SliceDropLast(h["DATE-AVG"], 13)]
    ELSE IF "date_obs" \in DOMAIN h THEN [err |-> NoErr, v |-> h["date_obs"]]
    ELSE Raise("KeyError")

\* the datetime and element of a spectrum title (CRISP._plot_stokes) and of
\* the wideband map title (CRISPWideband.intensity_map)
TitleDatetimeEl(self) ==
    LET h == CRISP_header(self) IN
    IF {"DATE-AVG", "WDESC1"} \subseteq DOMAIN h
    THEN [err |-> NoErr, datetime |-> h["DATE-AVG"], el |-> <<h["WDESC1"]>>]
    ELSE IF {"date_obs", "time_obs", "element"} \subseteq DOMAIN h
    THEN [err |-> NoErr, datetime |-> h["date_obs"] \o <<"T">> \o h["time_obs"],
          el |-> <<h["element"]>>]
    ELSE Raise("KeyError")

\* the datetime of a map title (CRISP.intensity_map, CRISP.stokes_map)
TitleDatetime(self) ==
    LET h == CRISP_header(self) IN
    IF "DATE-AVG" \in DOMAIN h
    THEN [err |-> NoErr, datetime |-> h["DATE-AVG"], el |-> <<>>]
    ELSE IF {"date_obs", "time_obs"} \subseteq DOMAIN h
    THEN [err |-> NoErr, datetime |-> h["date_obs"] \o <<"T">> \o h["time_obs"],
          el |-> <<>>]
    ELSE Raise("KeyError")

\* the frame and extent of a map: the error of the pixel-scale lookup
ExtentErr(self, frame) ==
    LET h == CRISP_header(self)
        f1 == IF frame = "None" THEN "WCS" ELSE frame
        f2 == IF f1 = "WCS" /\ self.rotate THEN "arcsec" ELSE f1
    IN  IF f2 = "arcsec"
           /\ ~ ({"CDELT1", "CDELT2"} \subseteq DOMAIN h)
           /\ "pixel_scale" \notin DOMAIN h
        THEN "KeyError"
        ELSE NoErr

----------------------------------------------------------------------------
(* Plotting *)

\* strings of Stokes letters are sequences of characters
StokesComponents == <<"I", "Q", "U", "V">>
StokesLetters == {"I", "Q", "U", "V"}
All == <<"a", "l", "l">>

\* d[d < 0.0] = np.nan
NegToNaN(px) == [i \in DOMAIN px |-> IF px[i] # NaN /\ px[i] < 0 THEN NaN ELSE px[i]]

\* map_negative_nan of CRISP.stokes_map: the array is changed where it is
map_negative_nan(d) ==
    [out |-> [d EXCEPT !.px = NegToNaN(d.px)], inplace |-> TRUE]

\* map_negative_nan of CRISPWideband.intensity_map: arrays that are not
\* float32 are converted (copied) first
wideband_map_negative_nan(d) ==
    IF d.dtype # "float32"
    THEN [out |-> [d EXCEPT !.px = NegToNaN(d.px), !.dtype = "float32"],
          inplace |-> FALSE]
    ELSE [out |-> [d EXCEPT !.px = NegToNaN(d.px)], inplace |-> TRUE]

\* map_data(data) for map_data one of "None", "stokes", "wideband"
ApplyMap(map_data, d) ==
    CASE map_data = "stokes" -> map_negative_nan(d)
      [] map_data = "wideband" -> wideband_map_negative_nan(d)
      [] OTHER -> [out |-> d, inplace |-> FALSE]

\* crisp_plotting.plot_single_frame: the frame drawn is map_data applied to
\* crisp_obj.data; the object afterwards
plot_single_frame(crisp_obj, map_data) ==
    LET m == ApplyMap(map_data, CRISP_data(crisp_obj)) IN
    IF m.inplace /\ DataIsView(crisp_obj)
    THEN [crisp_obj EXCEPT !.file[1].data = m.out]
    ELSE crisp_obj

\* crisp_plotting.plot_multi_frame: one frame per component, each mapped by
\* map_datas[component] (map_negative_nan for "I", nothing for the others)
plot_multi_frame(crisp_obj, components) ==
    IF \E i \in DOMAIN components : components[i] = "I"
    THEN plot_single_frame(crisp_obj, "stokes")
    ELSE crisp_obj

\* a plotting call: the routine, the title parts and the components drawn
Plot(fn, title, components) ==
    [t |-> "plot", fn |-> fn, datetime |-> title.datetime, el |-> title.el,
     components |-> components]

\* a spectrum plotting call: the wavelength axis converted to unit (and to
\* air wavelengths if air), d handed on to the plotting routine
SpectrumPlot(fn, title, components, unit, air, d) ==
    [t |-> "plot", fn |-> fn, datetime |-> title.datetime, el |-> title.el,
     components |-> components, unit |-> unit, air |-> air, d |-> d]

\* the first error of a sequence of checks ("none" if there is none)
FirstErr(es) ==
    IF \E i \in DOMAIN es : es[i] # NoErr
    THEN es[CHOOSE i \in DOMAIN es :
               es[i] # NoErr /\ \A j \in 1..(i - 1) : es[j] = NoErr]
    ELSE NoErr

\* the wavelength lookup a plotting method makes (CRISPNonU reads self.wvl)
WaveErr(self) == IF self.cls = "CRISPNonU" THEN NoErr ELSE CRISP_wave(self).err

\* CRISP._plot_stokes
CRISP_plot_stokes_(self, stokes, unit, air, d) ==
    LET title == TitleDatetimeEl(self)
        nd == CRISP_data(self).ndim
    IN  IF title.err # NoErr THEN Result(self, None, title.err)
        ELSE IF nd = 1
        THEN IF ~ (Len(stokes) = 1 /\ stokes[1] \in StokesLetters)
             THEN Result(self, None, "ValueError")
             ELSE Result(self, SpectrumPlot("plot_single_spectrum", title, stokes,
                                            unit, air, d), NoErr)
        ELSE IF nd = 2
        THEN IF stokes = All
             THEN Result(self, SpectrumPlot("plot_multi_component_spectrum", title,
                                            StokesComponents, unit, air, d), NoErr)
             ELSE IF Len(stokes) < 5
                     /\ \A i \in DOMAIN stokes : stokes[i] \in StokesLetters
             THEN Result(self, SpectrumPlot("plot_multi_component_spectrum", title,
                                            stokes, unit, air, d), NoErr)
             ELSE Result(self, None, "ValueError")
        ELSE Result(self, None, NoErr)

\* CRISP.plot_stokes and CRISPNonU.plot_stokes
CRISP_plot_stokes(self, stokes, unit, air, d) ==
    IF WaveErr(self) # NoErr THEN Result(self, None, WaveErr(self))
    ELSE CRISP_plot_stokes_(self, stokes, unit, air, d)

\* a variant of plot_spectrum that looks the wavelengths up before it checks
\* the rank
CRISP_plot_spectrum_late_check(self, unit, air, d) ==
    IF WaveErr(self) # NoErr THEN Result(self, None, WaveErr(self))
    ELSE IF CRISP_data(self).ndim # 1 THEN Result(self, None, "IndexError")
    ELSE CRISP_plot_stokes(self, <<"I">>, unit, air, d)

\* CRISP.plot_spectrum and CRISPNonU.plot_spectrum
CRISP_plot_spectrum(self, unit, air, d) ==
    IF CRISP_data(self).ndim # 1 THEN Result(self, None, "IndexError")
    ELSE CRISP_plot_stokes(self, <<"I">>, unit, air, d)

\* CRISP.intensity_map
CRISP_intensity_map(self, frame) ==
    LET e == FirstErr(<<
                IF ~ HasInd(self) THEN "AttributeError" ELSE NoErr,
                IF HasInd(self) /\ ~ self.ind[1].scalar /\ self.wcs = <<>>
                THEN "AttributeError" ELSE NoErr,
                IF HasInd(self) /\ ~ self.ind[1].scalar /\ self.wcs # <<>>
                THEN IndErr(self, IF self.wcs[1].naxis = 4 THEN 2 ELSE 1)
                ELSE NoErr,
                WaveErr(self),
                TitleDatetime(self).err,
                ExtentErr(self, frame) >>)
    IN  IF e # NoErr THEN Result(self, None, e)
        ELSE Result(plot_single_frame(self, "None"),
                    Plot("plot_single_frame", TitleDatetime(self), <<>>), NoErr)

\* CRISPWideband.intensity_map
CRISPWideband_intensity_map(self, frame) ==
    LET e == FirstErr(<< TitleDatetimeEl(self).err, ExtentErr(self, frame) >>)
    IN  IF e # NoErr THEN Result(self, None, e)
        ELSE Result(plot_single_frame(self, "wideband"),
                    Plot("plot_single_frame", TitleDatetimeEl(self), <<>>), NoErr)

\* the first error, if any, of what CRISP.stokes_map does before it looks
\* at stokes: the wavelength of the map, the title, the extent
StokesMapErr(self, frame) ==
    FirstErr(<< IF self.wcs = <<>> THEN "AttributeError" ELSE NoErr,
                IF self.wcs # <<>> THEN SliceErr(self.wcs[1].naxis, 4) ELSE NoErr,
                IF ~ HasInd(self) THEN "AttributeError" ELSE NoErr,
                IF HasInd(self) THEN IndErr(self, 2) ELSE NoErr,
                TitleDatetime(self).err,
                ExtentErr(self, frame) >>)

\* CRISP.stokes_map
CRISP_stokes_map(self, stokes, frame) ==
    LET e == StokesMapErr(self, frame)
        nd == CRISP_data(self).ndim
        title == TitleDatetime(self)
    IN  IF e # NoErr THEN Result(self, None, e)
        ELSE IF nd = 2
        THEN IF ~ (Len(stokes) = 1 /\ stokes[1] \in StokesLetters)
             THEN Result(self, None, "ValueError")
             ELSE Result(plot_single_frame(self, IF stokes[1] = "I" THEN "stokes"
                                                 ELSE "None"),
                         Plot("plot_single_frame", title, stokes), NoErr)
        ELSE IF nd = 3
        THEN IF stokes = All
             THEN Result(plot_multi_frame(self, StokesComponents),
                         Plot("plot_multi_frame", title, StokesComponents), NoErr)
             ELSE IF ~ \A i \in DOMAIN stokes : stokes[i] \in StokesLetters
             THEN Result(self, None, "ValueError")
             ELSE Result(plot_multi_frame(self, stokes),
                         Plot("plot_multi_frame", title, stokes), NoErr)
        ELSE Result(self, None, NoErr)

----------------------------------------------------------------------------
(* Slicing (CRISPSlicingMixin) *)

\* an index: a single integer, or a tuple of slices and integers
ScalarItem == [scalar |-> TRUE, comps |-> <<>>]
TupleItem(comps) == [scalar |-> FALSE, comps |-> comps]

\* the number of axes an index keeps of an array of rank ndim
Kept(item, ndim) ==
    IF item.scalar THEN ndim - 1
    ELSE ndim - Cardinality({i \in DOMAIN item.comps : item.comps[i] = "int"})

\* obj[item]: a new observation over the sliced array and the sliced WCS,
\* which records the index; the underlying WCS keeps all its axes
GetItem(cls, filename, nonu, item) ==
    LET nd == Kept(item, filename.data.ndim)
        r == Construct(cls,
                       [kind |-> "ObjDict",
                        data |-> [filename.data EXCEPT !.ndim = nd],
                        header |-> filename.header],
                       <<[rank |-> nd, naxis |-> filename.data.ndim]>>, nonu)
    IN  [r EXCEPT !.self.ind = <<item>>, !.self.attrs = @ \cup {"ind"}]

----------------------------------------------------------------------------
(* The observations the behaviours start from *)

Classes == {"CRISP", "CRISPWideband", "CRISPNonU"}

\* the wavelengths a non-uniformly sampled file carries in its header
Wavels == [x \in {"wavels"} |-> <<6562, 6563, 6565>>]

\* a header with the sampled wavelengths a CRISPNonU needs
WithWavels(cls, h) == IF cls = "CRISPNonU" THEN HUpdate(h, Wavels) ELSE h

\* the crop metadata of the headers on disk: none, all of it (a file saved
\* after a rotation), some of it
CropStates == {Restrict(SavedCrop, {}), SavedCrop,
               Restrict(SavedCrop, {"frame_dims", "angle"})}

\* the array stored with crop metadata c: the cropped frame if the file was
\* saved after a rotation, the raw frame otherwise
StoredData(px, dt, ndim, c) ==
    IF CropKeys \subseteq DOMAIN c
    THEN Array(px, dt, ndim, c.x_max - c.x_min, 0, "crop")
    ELSE Array(px, dt, ndim, MaxDims, 30, "raw")

\* the ranks and pixel types of the files of each class
Ranks(cls) ==
    CASE cls = "CRISPWideband" -> {2}
      [] cls = "CRISPNonU" -> {3}
      [] OTHER -> {2, 3, 4}
PixelTypes(cls) == IF cls = "CRISPWideband" THEN DTypes ELSE {"float64"}

\* the files an observation of class cls is built from: FITS-convention
\* headers in every crop state, alternate-convention headers without crop
\* metadata
Files(cls) ==
    { [kind |-> k, data |-> StoredData(px, dt, n, c),
       header |-> WithWavels(cls, HUpdate(HdrFITS, c))] :
        k \in {"fits", "zarr"}, px \in RawPx, dt \in PixelTypes(cls),
        n \in Ranks(cls), c \in CropStates }
      \cup
    { [kind |-> k, data |-> StoredData(px, dt, n, Restrict(SavedCrop, {})),
       header |-> WithWavels(cls, HdrAlt)] :
        k \in {"fits", "zarr"}, px \in RawPx, dt \in PixelTypes(cls),
        n \in Ranks(cls) }

\* the indices observations have been sliced with
Items(ndim) ==
    CASE ndim = 4 -> {TupleItem(<<"int", "int", "slice", "slice">>),
                      TupleItem(<<"slice", "int", "slice", "slice">>),
                      TupleItem(<<"int", "slice", "int", "int">>),
                      TupleItem(<<"slice", "slice", "int", "int">>)}
      [] ndim = 3 -> {TupleItem(<<"int", "slice", "slice">>),
                      TupleItem(<<"slice", "int", "int">>),
                      ScalarItem}
      [] OTHER -> {}

\* observations as constructed, and slices of them
Constructed(cls) ==
    { Construct(cls, f, <<>>, cls = "CRISPNonU").self : f \in Files(cls) }
SlicedObs(cls) ==
    UNION { { GetItem(cls, f, cls = "CRISPNonU", it).self : it \in Items(f.data.ndim) } :
              f \in {g \in Files(cls) : g.kind = "fits"} }
InitObs == UNION { Constructed(cls) \cup SlicedObs(cls) : cls \in Classes }

----------------------------------------------------------------------------
(* Calls on one observation *)

\* the arguments the calls are made with
StokesArgs == {<<"I">>, <<"Q">>, All, <<"I", "Q">>, <<"X">>}
FrameArgs == {"None", "pix"}

Op(name, args) == [name |-> name, args |-> args]

\* a call on the observation list[i] with outcome r
Call(i, name, args, r) ==
    /\ list' = [list EXCEPT ![i] = r.self]
    /\ op' = Op(name, <<i>> \o args)
    /\ ret' = r.ret
    /\ err' = r.err
    /\ UNCHANGED <<seq_full_frame, built>>

\* a call that only reads: its value or its error
Read(self, q) ==
    Result(self, IF q.err = NoErr THEN [t |-> "value", v |-> q] ELSE None, q.err)

\* the properties data, header, shape, wvls, info, time and date, and __str__
Property(i) ==
    LET self == list[i] IN
    \/ Call(i, "data", <<>>, Read(self, [err |-> NoErr, v |-> CRISP_data(self)]))
    \/ Call(i, "header", <<>>, Read(self, [err |-> NoErr, v |-> CRISP_header(self)]))
    \/ Call(i, "shape", <<>>,
            Read(self, [err |-> NoErr, v |-> <<CRISP_data(self).ndim, CRISP_data(self).dims>>]))
    \/ Call(i, "wvls", <<>>,
            Read(self, IF self.cls = "CRISPNonU" THEN [err |-> NoErr, v |-> self.wvl]
                       ELSE IF CRISP_data(self).ndim < 3 THEN Raise("IndexError")
                       ELSE CRISP_wave(self)))
    \/ Call(i, "info", <<>>, Read(self, CRISP__str__(self)))
    \/ Call(i, "__str__", <<>>, Read(self, CRISP__str__(self)))
    \/ Call(i, "time", <<>>, Read(self, CRISP_time(self)))
    \/ Call(i, "date", <<>>, Read(self, CRISP_date(self)))

wave(i) ==
    LET self == list[i] IN
    Call(i, "wave", <<>>,
         Read(self, IF self.cls = "CRISPNonU" THEN [err |-> NoErr, v |-> self.wvl]
                    ELSE CRISP_wave(self)))

to_lonlat(i) ==
    \E coord \in BOOLEAN, unit \in BOOLEAN :
        Call(i, "to_lonlat", <<coord, unit>>,
             Read(list[i], CRISP_to_lonlat(list[i], coord, unit)))

from_lonlat(i) ==
    Call(i, "from_lonlat", <<>>, Read(list[i], CRISP_from_lonlat(list[i])))

\* plot_spectrum and plot_stokes with unit, air and d left at their defaults
plot_spectrum(i) ==
    Call(i, "plot_spectrum", <<>>, CRISP_plot_spectrum(list[i], "None", FALSE, FALSE))

plot_stokes(i) ==
    \E stokes \in StokesArgs :
        Call(i, "plot_stokes", <<stokes>>,
             CRISP_plot_stokes(list[i], stokes, "None", FALSE, FALSE))

intensity_map(i) ==
    \E frame \in FrameArgs :
        Call(i, "intensity_map", <<frame>>,
             IF list[i].cls = "CRISPWideband"
             THEN CRISPWideband_intensity_map(list[i], frame)
             ELSE CRISP_intensity_map(list[i], frame))

stokes_map(i) ==
    \E stokes \in StokesArgs, frame \in FrameArgs :
        Call(i, "stokes_map", <<stokes, frame>>,
             CRISP_stokes_map(list[i], stokes, frame))

rotate_crop(i) ==
    \E sep \in BOOLEAN :
        Call(i, "rotate_crop", <<sep>>, CRISP_rotate_crop(list[i], sep))

reconstruct(i) ==
    \E sep \in BOOLEAN :
        Call(i, "reconstruct_full_frame", <<sep>>,
             CRISP_reconstruct_full_frame(list[i], sep))

----------------------------------------------------------------------------
(* One observation and every public operation on it *)

Init ==
    /\ list \in { <<o>> : o \in InitObs }
    /\ seq_full_frame = <<>>
    /\ op = Op("init", <<>>)
    /\ ret = None
    /\ err = NoErr
    /\ built = <<>>

Next ==
    \/ Property(1)
    \/ wave(1)
    \/ to_lonlat(1)
    \/ from_lonlat(1)
    \/ plot_spectrum(1)
    \/ plot_stokes(1)
    \/ intensity_map(1)
    \/ stokes_map(1)
    \/ rotate_crop(1)
    \/ reconstruct(1)

Spec == Init /\ [][Next]_vars

----------------------------------------------------------------------------
(* class CRISPSequence *)

\* the result of a call on a sequence: its elements and its own full_frame
\* afterwards, the return value, the error
SeqResult(lst, sff, r, e) == [list |-> lst, seq_full_frame |-> sff, ret |-> r, err |-> e]

\* CRISPSequence.data: [f.data for f in self.list]
CRISPSequence_data(lst) == [k \in DOMAIN lst |-> CRISP_data(lst[k])]

\* [f.rotate_crop() for f in self.list]: the elements and the values
\* collected when the comprehension ends or raises
RotateCropEach(lst) ==
    LET F[k \in 0..Len(lst)] ==
          IF k = 0 THEN [list |-> lst, vals |-> <<>>, err |-> NoErr]
          ELSE LET p == F[k - 1] IN
               IF p.err # NoErr THEN p
               ELSE LET r == CRISP_rotate_crop(p.list[k], FALSE) IN
                    [list |-> [p.list EXCEPT ![k] = r.self],
                     vals |-> Append(p.vals, r.ret),
                     err |-> r.err]
    IN  F[Len(lst)]

\* for f in self.list: crop, crop_dict = f.rotate_crop(sep=True); ...
RotateCropLoop(lst) ==
    LET F[k \in 0..Len(lst)] ==
          IF k = 0 THEN [list |-> lst, err |-> NoErr]
          ELSE LET p == F[k - 1] IN
               IF p.err # NoErr THEN p
               ELSE LET f == p.list[k]
                        r == CRISP_rotate_crop(f, TRUE)
                    IN  IF r.err # NoErr
                        THEN [list |-> [p.list EXCEPT ![k] = r.self], err |-> r.err]
                        ELSE [list |-> [p.list EXCEPT ![k] =
                                 [r.self EXCEPT
                                    !.file[1].data = r.ret.crop,
                                    !.file[1].header = HUpdate(r.self.file[1].header,
                                                               r.ret.crop_dict),
                                    !.rotate = TRUE]],
                              err |-> NoErr]
    IN  F[Len(lst)]

\* CRISPSequence.rotate_crop
CRISPSequence_rotate_crop(lst, sff, sep, diff_t) ==
    IF diff_t
    THEN IF sep
         THEN LET e == RotateCropEach(lst) IN
              IF e.err # NoErr THEN SeqResult(e.list, sff, None, e.err)
              ELSE SeqResult(e.list, sff, [t |-> "list", vals |-> e.vals], NoErr)
         ELSE LET l == RotateCropLoop(lst) IN
              SeqResult(l.list, <<CRISPSequence_data(lst)>>, None, l.err)
    ELSE IF Len(lst) < 2
    THEN SeqResult(lst, sff, None, "IndexError")
    ELSE LET a == rotate_crop_aligned_data(CRISP_data(lst[1]), CRISP_data(lst[2])) IN
         IF sep
         THEN IF a.err # NoErr THEN SeqResult(lst, sff, None, a.err)
              ELSE SeqResult(lst, sff,
                             [t |-> "tuple", crop_a |-> a.crop_a, crop_b |-> a.crop_b,
                              crop_dict |-> a.crop_dict], NoErr)
         ELSE LET full == <<<<CRISP_data(lst[1]), CRISP_data(lst[2])>>>> IN
              IF a.err # NoErr THEN SeqResult(lst, full, None, a.err)
              ELSE SeqResult(
                     [k \in DOMAIN lst |->
                        LET f == lst[k]
                            g == IF k > 2 THEN f
                                 ELSE [f EXCEPT
                                         !.file[1].data = IF k = 1 THEN a.crop_a
                                                          ELSE a.crop_b,
                                         !.file[1].header =
                                             HUpdate(f.file[1].header, a.crop_dict)]
                        IN  [g EXCEPT !.rotate = TRUE]],
                     full, None, NoErr)

\* [f.reconstruct_full_frame(sep=True) for f in self.list]
ReconstructEach(lst) ==
    LET F[k \in 0..Len(lst)] ==
          IF k = 0 THEN [vals |-> <<>>, err |-> NoErr]
          ELSE LET p == F[k - 1] IN
               IF p.err # NoErr THEN p
               ELSE LET r == CRISP_reconstruct_full_frame(lst[k], TRUE) IN
                    [vals |-> Append(p.vals, r.ret), err |-> r.err]
    IN  F[Len(lst)]

\* for f in self.list: f.reconstruct_full_frame(sep=False); f.rotate = False
ReconstructLoop(lst) ==
    LET F[k \in 0..Len(lst)] ==
          IF k = 0 THEN [list |-> lst, err |-> NoErr]
          ELSE LET p == F[k - 1] IN
               IF p.err # NoErr THEN p
               ELSE LET r == CRISP_reconstruct_full_frame(p.list[k], FALSE) IN
                    [list |-> [p.list EXCEPT ![k] =
                                 IF r.err # NoErr THEN r.self
                                 ELSE [r.self EXCEPT !.rotate = FALSE]],
                     err |-> r.err]
    IN  F[Len(lst)]

\* a variant of CRISPSequence.reconstruct_full_frame whose sep=True branch
\* calls f.reconstruct_full_frame() with the default sep
CRISPSequence_reconstruct_full_frame_default_sep(lst, sff, sep) ==
    LET l == ReconstructLoop(lst) IN
    IF sep
    THEN IF l.err # NoErr THEN SeqResult(l.list, sff, None, l.err)
         ELSE SeqResult(l.list, sff, [t |-> "list", vals |-> [k \in DOMAIN lst |-> None]],
                        NoErr)
    ELSE SeqResult(l.list, sff, None, l.err)

\* CRISPSequence.reconstruct_full_frame
CRISPSequence_reconstruct_full_frame(lst, sff, sep) ==
    IF sep
    THEN LET e == ReconstructEach(lst) IN
         IF e.err # NoErr THEN SeqResult(lst, sff, None, e.err)
         ELSE SeqResult(lst, sff, [t |-> "list", vals |-> e.vals], NoErr)
    ELSE LET l == ReconstructLoop(lst) IN
         SeqResult(l.list, sff, None, l.err)

\* a call on the sequence with outcome r
SeqCall(name, args, r) ==
    /\ list' = r.list
    /\ seq_full_frame' = r.seq_full_frame
    /\ op' = Op(name, <<0>> \o args)
    /\ ret' = r.ret
    /\ err' = r.err
    /\ UNCHANGED built

seq_rotate_crop ==
    \E sep \in BOOLEAN, diff_t \in BOOLEAN :
        SeqCall("seq_rotate_crop", <<sep, diff_t>>,
                CRISPSequence_rotate_crop(list, seq_full_frame, sep, diff_t))

seq_reconstruct ==
    \E sep \in BOOLEAN :
        SeqCall("seq_reconstruct_full_frame", <<sep>>,
                CRISPSequence_reconstruct_full_frame(list, seq_full_frame, sep))

\* the k-th observation of a sequence: a CRISP built from a FITS file, raw
\* or saved after a rotation, whose pixels tell it from the others
SeqObs(k) ==
    { Construct("CRISP",
                [kind |-> "fits",
                 data |-> StoredData(<<0 - k, k>>, "float64", 3, c),
                 header |-> HUpdate(HdrFITS, c)],
                <<>>, FALSE).self :
        c \in {Restrict(SavedCrop, {}), SavedCrop} }

\* CRISPSequence.__init__: one CRISP per parameter dict
InitSeq ==
    /\ list \in UNION { { l \in [1..n -> UNION {SeqObs(k) : k \in 1..n}] :
                            \A k \in 1..n : l[k] \in SeqObs(k) } : n \in 1..MaxObs }
    /\ seq_full_frame = <<>>
    /\ op = Op("init", <<>>)
    /\ ret = None
    /\ err = NoErr
    /\ built = <<>>

\* the caller works on the first observation directly before it calls the
\* operations of the sequence
BeforeSeqCalls == op.name \notin {"seq_rotate_crop", "seq_reconstruct_full_frame"}

NextSeq ==
    \/ seq_rotate_crop
    \/ seq_reconstruct
    \/ BeforeSeqCalls /\ rotate_crop(1)
    \/ BeforeSeqCalls /\ reconstruct(1)

SpecSeq == InitSeq /\ [][NextSeq]_vars

----------------------------------------------------------------------------
(* Plotting through a sequence *)

\* an idx argument: an int or a str
IntIdx(n) == [t |-> "int", v |-> n]
StrIdx(str) == [t |-> "str", v |-> str]

\* self.list[idx] for an int: the position of the element, counted from 1,
\* or 0 when idx is out of range
ListIndex(lst, n) ==
    IF n >= 0 /\ n < Len(lst) THEN n + 1
    ELSE IF n < 0 /\ n >= 0 - Len(lst) THEN Len(lst) + n + 1
    ELSE 0

\* the records of the calls made on the elements: which element, what the
\* call returned
ElementCalls(calls) == [t |-> "calls", calls |-> calls]

\* a variant of the dispatch on idx that takes every str for "all"
PlotTargets_any_str(lst, idx) ==
    IF idx.t # "str"
    THEN LET k == ListIndex(lst, idx.v) IN
         IF k = 0 THEN [err |-> "IndexError", ks |-> <<>>]
         ELSE [err |-> NoErr, ks |-> <<k>>]
    ELSE [err |-> NoErr, ks |-> [j \in 1..Len(lst) |-> j]]

\* the dispatch on idx shared by the four plotting methods of the sequence:
\* the elements the method is to be called on, in order, or the error
PlotTargets(lst, idx) ==
    IF idx.t # "str"
    THEN LET k == ListIndex(lst, idx.v) IN
         IF k = 0 THEN [err |-> "IndexError", ks |-> <<>>]
         ELSE [err |-> NoErr, ks |-> <<k>>]
    ELSE IF idx.v = All
    THEN [err |-> NoErr, ks |-> [j \in 1..Len(lst) |-> j]]
    ELSE [err |-> "ValueError", ks |-> <<>>]

\* f.method(*a) for the four plotting methods
ElementPlot(f, method, a) ==
    CASE method = "plot_spectrum" -> CRISP_plot_spectrum(f, a[1], a[2], a[3])
      [] method = "plot_stokes" -> CRISP_plot_stokes(f, a[1], a[2], a[3], a[4])
      [] method = "intensity_map" -> CRISP_intensity_map(f, a[1])
      [] OTHER -> CRISP_stokes_map(f, a[1], a[2])

\* the calls f.method(*a) on those elements, one after the other, until one
\* raises
PlotDispatch(lst, sff, idx, method, a) ==
    LET t == PlotTargets(lst, idx)
        F[n \in 0..Len(t.ks)] ==
          IF n = 0 THEN [list |-> lst, calls |-> <<>>, err |-> NoErr]
          ELSE LET p == F[n - 1] IN
               IF p.err # NoErr THEN p
               ELSE LET k == t.ks[n]
                        r == ElementPlot(p.list[k], method, a)
                    IN  [list |-> [p.list EXCEPT ![k] = r.self],
                         calls |-> Append(p.calls, [k |-> k, ret |-> r.ret]),
                         err |-> r.err]
    IN  IF t.err # NoErr THEN SeqResult(lst, sff, None, t.err)
        ELSE LET l == F[Len(t.ks)] IN
             SeqResult(l.list, sff, ElementCalls(l.calls), l.err)

\* CRISPSequence.plot_spectrum
CRISPSequence_plot_spectrum(lst, sff, idx, unit, air, d) ==
    PlotDispatch(lst, sff, idx, "plot_spectrum", <<unit, air, d>>)

\* CRISPSequence.plot_stokes
CRISPSequence_plot_stokes(lst, sff, idx, stokes, unit, air, d) ==
    PlotDispatch(lst, sff, idx, "plot_stokes", <<stokes, unit, air, d>>)

\* CRISPSequence.intensity_map
CRISPSequence_intensity_map(lst, sff, idx, frame) ==
    PlotDispatch(lst, sff, idx, "intensity_map", <<frame>>)

\* CRISPSequence.stokes_map
CRISPSequence_stokes_map(lst, sff, idx, stokes, frame) ==
    PlotDispatch(lst, sff, idx, "stokes_map", <<stokes, frame>>)

\* the idx arguments: every int in and around the range of the list, "all"
\* and other strings
IdxArgs ==
    { IntIdx(n) : n \in (0 - MaxObs - 1)..MaxObs }
      \cup { StrIdx(str) : str \in {All, <<"A", "l", "l">>, <<"0">>, <<>>} }

seq_plot_spectrum ==
    \E idx \in IdxArgs :
        SeqCall("seq_plot_spectrum", <<idx, "None", FALSE, FALSE>>,
                CRISPSequence_plot_spectrum(list, seq_full_frame, idx, "None", FALSE, FALSE))

seq_plot_stokes ==
    \E idx \in IdxArgs, stokes \in {<<"I">>, All} :
        SeqCall("seq_plot_stokes", <<idx, stokes, "None", FALSE, FALSE>>,
                CRISPSequence_plot_stokes(list, seq_full_frame, idx, stokes,
                                          "None", FALSE, FALSE))

seq_intensity_map ==
    \E idx \in IdxArgs, frame \in FrameArgs :
        SeqCall("seq_intensity_map", <<idx, frame>>,
                CRISPSequence_intensity_map(list, seq_full_frame, idx, frame))

seq_stokes_map ==
    \E idx \in IdxArgs :
        SeqCall("seq_stokes_map", <<idx, <<"I">>, "pix">>,
                CRISPSequence_stokes_map(list, seq_full_frame, idx, <<"I">>, "pix"))

\* the file of the k-th observation of a sequence of four-axis observations
SeqPlotFile(k) ==
    [kind |-> "fits",
     data |-> Array(<<0 - k, k>>, "float64", 4, MaxDims, 30, "raw"),
     header |-> HdrFITS]

\* the k-th element: the observation cut to a spectrum or to an image
SeqPlotObs(k) ==
    { GetItem("CRISP", SeqPlotFile(k), FALSE, it).self :
        it \in {TupleItem(<<"int", "slice", "int", "int">>),
                TupleItem(<<"int", "int", "slice", "slice">>)} }

InitSeqPlot ==
    /\ list \in UNION { { l \in [1..n -> UNION {SeqPlotObs(k) : k \in 1..n}] :
                            \A k \in 1..n : l[k] \in SeqPlotObs(k) } : n \in 1..MaxObs }
    /\ seq_full_frame = <<>>
    /\ op = Op("init", <<>>)
    /\ ret = None
    /\ err = NoErr
    /\ built = <<>>

NextSeqPlot ==
    \/ seq_plot_spectrum
    \/ seq_plot_stokes
    \/ seq_intensity_map
    \/ seq_stokes_map

SpecSeqPlot == InitSeqPlot /\ [][NextSeqPlot]_vars

\* a plotting method of the sequence is called, with idx
SeqPlotCall ==
    op'.name \in {"seq_plot_spectrum", "seq_plot_stokes", "seq_intensity_map",
                  "seq_stokes_map"}
SeqPlotIdx == op'.args[2]

\* the same method called on element o with the same arguments
SeqPlotElement(o) ==
    CASE op'.name = "seq_plot_spectrum" ->
           CRISP_plot_spectrum(o, op'.args[3], op'.args[4], op'.args[5])
      [] op'.name = "seq_plot_stokes" ->
           CRISP_plot_stokes(o, op'.args[3], op'.args[4], op'.args[5], op'.args[6])
      [] op'.name = "seq_intensity_map" -> CRISP_intensity_map(o, op'.args[3])
      [] OTHER -> CRISP_stokes_map(o, op'.args[3], op'.args[4])

\* the elements the call was made on, in the order of the calls
Invoked == IF ret' = None THEN <<>> ELSE [j \in DOMAIN ret'.calls |-> ret'.calls[j].k]

\* every call on an element was the method with the arguments of the
\* sequence call
InvokedAsAsked ==
    \A j \in DOMAIN Invoked :
        ret'.calls[j].ret = SeqPlotElement(list[Invoked[j]]).ret

\* C16 as stated: a non-string idx invokes the method on exactly list[idx];
\* "all" invokes it once on every element, in list order; any other string
\* raises ValueError without invoking it on any element.
C16_SeqPlotDispatch ==
    [][ SeqPlotCall =>
          /\ InvokedAsAsked
          /\ (SeqPlotIdx.t = "int" /\ ListIndex(list, SeqPlotIdx.v) # 0)
               => Invoked = <<ListIndex(list, SeqPlotIdx.v)>>
          /\ SeqPlotIdx = StrIdx(All)
               => Invoked = [j \in 1..Len(list) |-> j]
          /\ (SeqPlotIdx.t = "str" /\ SeqPlotIdx # StrIdx(All))
               => err' = "ValueError" /\ Invoked = <<>> ]_vars

\* C16 as amended: with "all" the method is invoked on the elements in list
\* order, once each, up to and including the first element whose call
\* raises; that error is the error of the sequence call, and when no call
\* raises every element has been invoked.
C16_SeqPlotDispatchUntilError ==
    [][ SeqPlotCall =>
          /\ InvokedAsAsked
          /\ (SeqPlotIdx.t = "int" /\ ListIndex(list, SeqPlotIdx.v) # 0)
               => /\ Invoked = <<ListIndex(list, SeqPlotIdx.v)>>
                  /\ err' = SeqPlotElement(list[Invoked[1]]).err
          /\ SeqPlotIdx = StrIdx(All)
               => \E n \in 1..Len(list) :
                     /\ Invoked = [j \in 1..n |-> j]
                     /\ \A j \in 1..(n - 1) : SeqPlotElement(list[j]).err = NoErr
                     /\ err' = SeqPlotElement(list[n]).err
                     /\ err' = NoErr => n = Len(list)
          /\ (SeqPlotIdx.t = "str" /\ SeqPlotIdx # StrIdx(All))
               => err' = "ValueError" /\ Invoked = <<>> ]_vars

\* plot_stokes("all", ...) went through a sequence of three: it plotted the
\* first two elements and stopped at the third, whose call raised
C16_Witness ==
    /\ op.name = "seq_plot_stokes" /\ op.args[2] = StrIdx(All)
    /\ Len(list) = 3
    /\ err # NoErr
    /\ ret # None
    /\ Len(ret.calls) = 3
    /\ ret.calls[1].ret # None /\ ret.calls[2].ret # None

----------------------------------------------------------------------------
(* class Inversion *)

\* an Inversion none of whose attributes has been set
BlankInversion ==
    [cls |-> "Inversion", attrs |-> {}, ne |-> <<>>, temp |-> <<>>, vel |-> <<>>,
     err |-> <<>>, wcs |-> <<>>, z |-> <<>>, header |-> <<>>, ind |-> <<>>]

\* Inversion.__init__.  filename is a record: kind "h5" (a str naming an
\* HDF5 file, with the arrays stored there), "str" (a str that names no such
\* file), "ObjDict" (with its arrays) or "other" (any other type).  z is a
\* record: kind "h5" (a str naming a file with a "z" array) or "array".
Inversion__init__(filename, wcs, z, header) ==
    IF filename.kind = "str"
    THEN Result(BlankInversion, None, "OSError")
    ELSE IF filename.kind = "h5"
    THEN Result([BlankInversion EXCEPT
                   !.attrs = {"f", "ne", "temp", "vel", "err", "wcs", "z", "header"},
                   !.ne = <<filename.ne>>,
                   !.temp = <<filename.temperature>>,
                   !.vel = <<filename.vel>>,
                   !.err = <<filename.mad>>,
                   !.wcs = <<wcs>>,
                   !.z = <<z.z>>,
                   !.header = <<header>>],
                None, NoErr)
    ELSE IF filename.kind = "ObjDict"
    THEN Result([BlankInversion EXCEPT
                   !.attrs = {"ne", "temp", "vel", "err", "wcs", "z", "header"},
                   !.ne = <<filename.ne>>,
                   !.temp = <<filename.temperature>>,
                   !.vel = <<filename.vel>>,
                   !.err = <<filename.mad>>,
                   !.wcs = <<wcs>>,
                   !.z = <<z>>,
                   !.header = <<header>>],
                None, NoErr)
    ELSE Result(BlankInversion, None, NoErr)

\* inversion[item]: the slice records the index it was cut at
Inversion_getitem(self) ==
    Result([self EXCEPT !.attrs = @ \cup {"ind"}, !.ind = <<"item">>], None, NoErr)

\* the methods of an Inversion
InversionMethods ==
    {"__str__", "plot_ne", "plot_temp", "plot_vel", "plot_params",
     "ne_map", "temp_map", "vel_map", "params_map"}

\* a variant of the methods in which the maps drop the header once they
\* have read the date from it
Inversion_method_drops_header(self, m, frame) ==
    IF m = "__str__"
    THEN IF "header" \notin self.attrs THEN Result(self, None, "AttributeError")
         ELSE IF self.header[1] = "None"
         THEN Result(self, [t |-> "str", lines |-> <<"You know more">>], NoErr)
         ELSE Result(self, None, "AttributeError")
    ELSE IF m \in {"plot_ne", "plot_temp", "plot_vel", "plot_params"}
    THEN IF "wcs" \notin self.attrs \/ "ind" \notin self.attrs
         THEN Result(self, None, "AttributeError")
         ELSE IF self.wcs[1] = <<>> THEN Result(self, None, "AttributeError")
         ELSE Result(self, None, "NameError")
    ELSE IF "z" \notin self.attrs \/ "ind" \notin self.attrs
    THEN Result(self, None, "AttributeError")
    ELSE Result([self EXCEPT !.header = <<"None">>],
                [t |-> "inversion_map", fn |-> m, frame |-> frame,
                 datetime |-> IF self.header[1] = "None" THEN <<>> ELSE DateAvg,
                 z |-> self.z[1], ind |-> self.ind[1],
                 projection |-> IF frame = "None" THEN self.wcs[1] ELSE <<>>],
                NoErr)

\* Inversion.__str__, plot_ne, plot_temp, plot_vel, plot_params, ne_map,
\* temp_map, vel_map and params_map.  __str__ reads self.file, which no
\* Inversion has; the four profile plots read self.ind and the unit module u,
\* which the module does not import; the four maps read self.z[self.ind]
\* and show the arrays.
Inversion_method(self, m, frame) ==
    IF m = "__str__"
    THEN IF "header" \notin self.attrs THEN Result(self, None, "AttributeError")
         ELSE IF self.header[1] = "None"
         THEN Result(self, [t |-> "str", lines |-> <<"You know more">>], NoErr)
         ELSE Result(self, None, "AttributeError")
    ELSE IF m \in {"plot_ne", "plot_temp", "plot_vel", "plot_params"}
    THEN IF "wcs" \notin self.attrs \/ "ind" \notin self.attrs
         THEN Result(self, None, "AttributeError")
         ELSE IF self.wcs[1] = <<>> THEN Result(self, None, "AttributeError")
         ELSE Result(self, None, "NameError")
    ELSE IF "z" \notin self.attrs \/ "ind" \notin self.attrs
    THEN Result(self, None, "AttributeError")
    ELSE Result(self,
                [t |-> "inversion_map", fn |-> m, frame |-> frame,
                 datetime |-> IF self.header[1] = "None" THEN <<>> ELSE DateAvg,
                 z |-> self.z[1], ind |-> self.ind[1],
                 projection |-> IF frame = "None" THEN self.wcs[1] ELSE <<>>],
                NoErr)

----------------------------------------------------------------------------
(* Construction *)

\* the inputs a CRISP is constructed from: files, ObjDicts, and the inputs
\* the constructor does not support (a str that names neither a FITS nor a
\* Zarr file, and any other type)
CtorFiles ==
    { f \in Files("CRISPNonU") : f.data.px = <<1, 2>> }
      \cup { [f EXCEPT !.kind = "ObjDict"] :
               f \in { g \in Files("CRISPNonU") : g.kind = "fits" /\ g.data.px = <<1, 2>> } }
      \cup { [f EXCEPT !.kind = "ObjDict", !.header = Restrict(f.header, DOMAIN HdrFITS)] :
               f \in { g \in Files("CRISPNonU") : g.kind = "fits" /\ g.data.px = <<1, 2>> } }
      \cup { [kind |-> "str"], [kind |-> "other"] }

\* the WCS arguments: None, or a WCS of the caller
WCSArgs == { <<>>, <<[rank |-> 3, naxis |-> 3]>> }

\* the inputs an Inversion is constructed from
InversionFiles ==
    { [kind |-> k, ne |-> "ne", temperature |-> "temperature", vel |-> "vel",
       mad |-> "mad"] : k \in {"h5", "ObjDict"} }
      \cup { [kind |-> "str"], [kind |-> "other"] }
ZArgs == { [kind |-> "h5", z |-> "z"], [kind |-> "array", z |-> "heights"] }
HeaderArgs == { "None", "header" }

\* CRISP(filename, wcs, nonu=nonu) and its subclasses
construct_crisp ==
    \E cls \in Classes, filename \in CtorFiles, wcs \in WCSArgs, nonu \in BOOLEAN :
        /\ built' = <<[cls |-> cls,
                       args |-> [filename |-> filename, wcs |-> wcs, nonu |-> nonu],
                       r |-> Construct(cls, filename, wcs, nonu)]>>
        /\ op' = Op("__init__", <<0>>)
        /\ ret' = None
        /\ err' = built'[1].r.err
        /\ UNCHANGED <<list, seq_full_frame>>

\* Inversion(filename, wcs, z, header)
construct_inversion ==
    \E filename \in InversionFiles, wcs \in WCSArgs, z \in ZArgs, header \in HeaderArgs :
        /\ built' = <<[cls |-> "Inversion",
                       args |-> [filename |-> filename, wcs |-> wcs, z |-> z,
                                 header |-> header],
                       r |-> Inversion__init__(filename, wcs, z, header)]>>
        /\ op' = Op("__init__", <<0>>)
        /\ ret' = None
        /\ err' = built'[1].r.err
        /\ UNCHANGED <<list, seq_full_frame>>

\* inversion = inversion[item], on an Inversion whose arrays are set
inversion_slice ==
    /\ built # <<>>
    /\ built[1].cls = "Inversion" /\ built[1].r.err = NoErr
    /\ "ne" \in built[1].r.self.attrs /\ built[1].r.self.ind = <<>>
    /\ built' = <<[built[1] EXCEPT !.r.self = Inversion_getitem(@).self]>>
    /\ op' = Op("inversion_getitem", <<0>>)
    /\ ret' = None
    /\ err' = NoErr
    /\ UNCHANGED <<list, seq_full_frame>>

\* a method called on the Inversion that was constructed
inversion_method ==
    /\ built # <<>>
    /\ built[1].cls = "Inversion" /\ built[1].r.err = NoErr
    /\ \E m \in InversionMethods, frame \in FrameArgs :
          LET r == Inversion_method(built[1].r.self, m, frame) IN
          /\ built' = <<[built[1] EXCEPT !.r.self = r.self]>>
          /\ op' = Op("inversion_method", <<0, m, frame>>)
          /\ ret' = r.ret
          /\ err' = r.err
    /\ UNCHANGED <<list, seq_full_frame>>

InitCtor ==
    /\ list = <<>>
    /\ seq_full_frame = <<>>
    /\ op = Op("init", <<>>)
    /\ ret = None
    /\ err = NoErr
    /\ built = <<>>

NextCtor ==
    \/ construct_crisp
    \/ construct_inversion
    \/ inversion_slice
    \/ inversion_method

SpecCtor == InitCtor /\ [][NextCtor]_vars

\* the inputs CRISP.__init__ supports
Supported(filename) == filename.kind \in {"fits", "zarr", "ObjDict"}

\* C8: constructing a CRISP, or a subclass, from an input that is neither a
\* str naming a FITS or Zarr file nor an ObjDict raises NotImplementedError
\* before any attribute of the object is set.
C8_UnsupportedInputRejected ==
    \A i \in DOMAIN built :
        (built[i].cls \in Classes /\ ~ Supported(built[i].args.filename)) =>
            /\ built[i].r.err = "NotImplementedError"
            /\ built[i].r.self.attrs = {}

\* a CRISPNonU has been constructed from an unsupported input
C8_Witness ==
    /\ built # <<>>
    /\ built[1].cls = "CRISPNonU"
    /\ built[1].args.filename.kind = "other"
    /\ built[1].r.err = "NotImplementedError"

\* C9: constructing an Inversion from a filename that is neither a str nor
\* an ObjDict is rejected with an error; no object is returned whose ne,
\* temp, vel, err, wcs, z and header are unset.
C9_UnsupportedInversionRejected ==
    \A i \in DOMAIN built :
        (built[i].cls = "Inversion" /\ built[i].args.filename.kind = "other") =>
            built[i].r.err # NoErr

\* C17: a CRISP constructed with a WCS stores that WCS; constructed with
\* wcs=None from a FITS file, a Zarr file or an ObjDict it stores the WCS
\* built from the header, so its wcs is never None after a successful
\* construction.
C17_WCSNeverNone ==
    \A i \in DOMAIN built :
        (built[i].cls \in Classes /\ built[i].r.err = NoErr) =>
            /\ built[i].r.self.wcs # <<>>
            /\ built[i].args.wcs # <<>> => built[i].r.self.wcs = built[i].args.wcs
            /\ built[i].args.wcs = <<>> =>
                  built[i].r.self.wcs = <<WCSOf(built[i].args.filename.data)>>

\* the attributes of an Inversion that construction sets
InversionState(o) == <<o.ne, o.temp, o.vel, o.err, o.z, o.wcs, o.header>>

\* C18: no method of an Inversion (__str__, plot_ne, plot_temp, plot_vel,
\* plot_params, ne_map, temp_map, vel_map, params_map) changes its ne, temp,
\* vel, err, z, wcs or header, whether the method returns or raises.
C18_InversionReadOnly ==
    [][ op'.name = "inversion_method" =>
          /\ InversionState(built'[1].r.self) = InversionState(built[1].r.self)
          /\ built'[1].r.self.attrs = built[1].r.self.attrs ]_vars

\* params_map has drawn the maps of a slice of an Inversion read from a file
C18_Witness ==
    /\ op.name = "inversion_method" /\ op.args[2] = "params_map"
    /\ err = NoErr
    /\ ret.t = "inversion_map"
    /\ built[1].args.filename.kind = "h5"
    /\ built[1].r.self.z = <<"z">>

----------------------------------------------------------------------------
(* Headers that follow neither, one or both naming conventions *)

\* the keys of the two conventions that summaries and titles read from an
\* image (rank 2)
ConventionFITSKeys == StrFITSKeys("CRISP", 2)
ConventionAltKeys == StrAltKeys

\* the other keys of a header
OtherKeys(cls) ==
    {"CDELT1", "CDELT2", "pixel_scale"}
      \cup (IF cls = "CRISPNonU" THEN {"wavels"} ELSE {})

\* every selection of FITS keys, with all, all but one or none of the
\* alternate keys
MixedHeaders(cls) ==
    { Restrict(HUpdate(HUpdate(HdrFITS, HdrAlt), Wavels), fk \cup ak \cup OtherKeys(cls)) :
        fk \in SUBSET ConventionFITSKeys,
        ak \in {ConventionAltKeys, {}}
                 \cup {ConventionAltKeys \ {k} : k \in ConventionAltKeys} }

\* an image cut out of a four-axis observation, with such a header
HeaderObs ==
    UNION { { GetItem(cls,
                      [kind |-> "fits",
                       data |-> Array(<<1, 2>>, "float32", 4, MaxDims, 30, "raw"),
                       header |-> h],
                      cls = "CRISPNonU",
                      TupleItem(<<"int", "int", "slice", "slice">>)).self :
                h \in MixedHeaders(cls) } : cls \in Classes }

InitHdr ==
    /\ list \in { <<o>> : o \in HeaderObs }
    /\ seq_full_frame = <<>>
    /\ op = Op("init", <<>>)
    /\ ret = None
    /\ err = NoErr
    /\ built = <<>>

NextHdr ==
    \/ Property(1)
    \/ plot_stokes(1)
    \/ intensity_map(1)
    \/ stokes_map(1)

SpecHdr == InitHdr /\ [][NextHdr]_vars

\* the convention a printed field comes from, told by its value
TimeSource(v) ==
    IF v = SliceLast(DateAvg, 12) THEN "fits" ELSE IF v = TimeObs THEN "alt" ELSE "?"
DateSource(v) ==
    IF v = SliceDropLast(DateAvg, 13) THEN "fits" ELSE IF v = DateObs THEN "alt" ELSE "?"
DatetimeSource(v) ==
    IF v = DateAvg THEN "fits"
    ELSE IF v = DateObs \o <<"T">> \o TimeObs THEN "alt" ELSE "?"
ElSource(v) ==
    IF v = HdrFITS["WDESC1"] THEN "fits"
    ELSE IF v = HdrAlt["element"] THEN "alt" ELSE "?"
ClSource(v) ==
    IF v = Str(Round2(HdrFITS["TWAVE1"])) THEN "fits"
    ELSE IF v = Str(HdrAlt["crval"][2]) THEN "alt" ELSE "?"
WwidthSource(v) ==
    IF v = Str(HdrFITS["WWIDTH1"]) THEN "fits"
    ELSE IF v = Str(HdrAlt["dimensions"][2]) THEN "alt" ELSE "?"
ShapeSource(v) ==
    IF v = Str(<<HdrFITS["NAXIS2"], HdrFITS["NAXIS1"]>>) THEN "fits"
    ELSE IF v = Str(HdrAlt["dimensions"]) THEN "alt" ELSE "?"
PointingXSource(v) ==
    IF v = Str(HdrFITS["CRVAL1"]) THEN "fits"
    ELSE IF v = Str(HdrAlt["crval"][4]) THEN "alt" ELSE "?"
PointingYSource(v) ==
    IF v = Str(HdrFITS["CRVAL2"]) THEN "fits"
    ELSE IF v = Str(HdrAlt["crval"][3]) THEN "alt" ELSE "?"

\* the conventions the fields of the last summary or title come from
Sources ==
    CASE op.name \in {"__str__", "info"} ->
           {TimeSource(ret.v.time), DateSource(ret.v.date), ShapeSource(ret.v.shape),
            ElSource(ret.v.el), PointingXSource(ret.v.pointing_x),
            PointingYSource(ret.v.pointing_y)}
             \cup {ClSource(ret.v.cl[i]) : i \in DOMAIN ret.v.cl}
             \cup {WwidthSource(ret.v.wwidth[i]) : i \in DOMAIN ret.v.wwidth}
      [] op.name = "time" -> {TimeSource(ret.v.v)}
      [] op.name = "date" -> {DateSource(ret.v.v)}
      [] OTHER ->
           {DatetimeSource(ret.datetime)} \cup {ElSource(ret.el[i]) : i \in DOMAIN ret.el}

\* the FITS keys and the alternate keys the last call reads
KeysRead ==
    LET cls == list[1].cls IN
    CASE op.name \in {"__str__", "info"} ->
           [fits |-> StrFITSKeys(cls, 2), alt |-> StrAltKeys]
      [] op.name = "time" -> [fits |-> {"DATE-AVG"}, alt |-> {"time_obs"}]
      [] op.name = "date" -> [fits |-> {"DATE-AVG"}, alt |-> {"date_obs"}]
      [] op.name = "plot_stokes"
           \/ (op.name = "intensity_map" /\ cls = "CRISPWideband") ->
           [fits |-> {"DATE-AVG", "WDESC1"}, alt |-> {"date_obs", "time_obs", "element"}]
      [] OTHER -> [fits |-> {"DATE-AVG"}, alt |-> {"date_obs", "time_obs"}]

\* the last call printed a summary or drew a title
SummaryCall ==
    /\ op.name \in {"__str__", "info", "time", "date", "plot_stokes",
                    "intensity_map", "stokes_map"}
    /\ (op.name \in {"plot_stokes", "stokes_map"} => op.args[2] = <<"Q">>)

HeaderKeys == DOMAIN list[1].file[1].header

\* C10 as stated: a summary or title never raises; with a FITS key missing
\* it comes from the alternate convention, and its fields are never a mix
\* of the two conventions.
C10_FallbackNeverRaises ==
    SummaryCall =>
        /\ err = NoErr
        /\ Sources \in {{"fits"}, {"alt"}}
        /\ ~ (KeysRead.fits \subseteq HeaderKeys) => Sources = {"alt"}

\* C10 as amended: with a FITS key missing a summary or title comes from
\* the alternate convention whenever the alternate keys it reads are there,
\* and raises KeyError when one of those is missing too; its fields are
\* never a mix of the two conventions.
C10_FallbackAllOrNothing ==
    SummaryCall =>
        /\ err \in {NoErr, "KeyError"}
        /\ err = "KeyError" <=>
              /\ ~ (KeysRead.fits \subseteq HeaderKeys)
              /\ ~ (KeysRead.alt \subseteq HeaderKeys)
        /\ err = NoErr =>
              /\ Sources \in {{"fits"}, {"alt"}}
              /\ Sources = {"fits"} <=> KeysRead.fits \subseteq HeaderKeys

\* a summary has been printed from the alternate convention although the
\* header holds some of the FITS keys
C10_Witness ==
    /\ op.name = "__str__" /\ err = NoErr
    /\ Sources = {"alt"}
    /\ list[1].cls = "CRISP"
    /\ "DATE-AVG" \in HeaderKeys
    /\ "TWAVE1" \notin HeaderKeys

----------------------------------------------------------------------------
(* Plotting calls with every kind of argument *)

\* the stokes strings the plots are asked for
StokesStrings ==
    {<<>>, <<"I">>, <<"V">>, <<"X">>, <<"Q", "V">>, <<"I", "Q", "U">>,
     <<"I", "I">>, <<"I", "X">>, <<"I", "Q", "U", "V">>,
     <<"V", "U", "Q", "I", "V">>, All, <<"a", "l">>}

\* the unit argument: None or a unit
UnitArgs == {"None", "nm"}

\* further slices of a four-axis observation: a row of one image, the whole
\* cube, one Stokes cube picked by an integer
MoreItems ==
    {TupleItem(<<"int", "int", "int", "slice">>),
     TupleItem(<<"slice", "slice", "slice", "slice">>),
     ScalarItem}

MoreSlicedObs ==
    { GetItem("CRISP",
              [kind |-> "fits",
               data |-> Array(<<0 - 1, 2>>, "float64", 4, MaxDims, 30, "raw"),
               header |-> HdrFITS],
              FALSE, it).self : it \in MoreItems }

plot_spectrum_with(i) ==
    \E unit \in UnitArgs, air \in BOOLEAN, d \in BOOLEAN :
        Call(i, "plot_spectrum", <<unit, air, d>>,
             CRISP_plot_spectrum(list[i], unit, air, d))

plot_stokes_with(i) ==
    \E stokes \in StokesStrings, unit \in UnitArgs, air \in BOOLEAN, d \in BOOLEAN :
        Call(i, "plot_stokes", <<stokes, unit, air, d>>,
             CRISP_plot_stokes(list[i], stokes, unit, air, d))

stokes_map_with(i) ==
    \E stokes \in StokesStrings, frame \in FrameArgs :
        Call(i, "stokes_map", <<stokes, frame>>,
             CRISP_stokes_map(list[i], stokes, frame))

InitPlot ==
    /\ list \in { <<o>> : o \in InitObs \cup MoreSlicedObs }
    /\ seq_full_frame = <<>>
    /\ op = Op("init", <<>>)
    /\ ret = None
    /\ err = NoErr
    /\ built = <<>>

NextPlot ==
    \/ plot_spectrum_with(1)
    \/ plot_stokes_with(1)
    \/ stokes_map_with(1)

SpecPlot == InitPlot /\ [][NextPlot]_vars

\* the rank of the data before the step
RankBefore == CRISP_data(list[1]).ndim

\* C11: plot_spectrum raises IndexError whenever the data is not
\* 1-dimensional, before any wavelength lookup or plotting call; on
\* 1-dimensional data it does what plot_stokes does for "I" with the same
\* unit, air and d, and a plot it makes is the single profile of Stokes I.
C11_PlotSpectrum ==
    [][ op'.name = "plot_spectrum" =>
          IF RankBefore # 1
          THEN err' = "IndexError" /\ ret' = None /\ list' = list
          ELSE LET r == CRISP_plot_stokes(list[1], <<"I">>, op'.args[2], op'.args[3],
                                          op'.args[4])
               IN  /\ err' = r.err /\ ret' = r.ret /\ list'[1] = r.self
                   /\ err' = NoErr =>
                        /\ ret'.fn = "plot_single_spectrum"
                        /\ ret'.components = <<"I">>
                        /\ <<ret'.unit, ret'.air, ret'.d>>
                             = <<op'.args[2], op'.args[3], op'.args[4]>> ]_vars

\* plot_spectrum has rejected a cube whose wavelength lookup would have
\* failed with another error
C11_Witness ==
    /\ op.name = "plot_spectrum" /\ err = "IndexError"
    /\ CRISP_data(list[1]).ndim = 3
    /\ WaveErr(list[1]) = "TypeError"

\* C12: plot_stokes on data whose rank is not 1 or 2, and stokes_map on data
\* whose rank is not 2 or 3, raise an error.
C12_RankMismatchRejected ==
    [][ ( \/ op'.name = "plot_stokes" /\ RankBefore \notin {1, 2}
          \/ op'.name = "stokes_map" /\ RankBefore \notin {2, 3} )
        => err' # NoErr ]_vars

\* a combination of the letters I, Q, U, V: one or more of them, each once
Combination(stokes) ==
    /\ Len(stokes) >= 1
    /\ \A i \in DOMAIN stokes : stokes[i] \in StokesLetters
    /\ \A i, j \in DOMAIN stokes : stokes[i] = stokes[j] => i = j

\* what the step must do with its stokes argument when the data holds one
\* component (single) or several
StokesChecked(single) ==
    LET stokes == op'.args[2] IN
    IF single
    THEN IF Len(stokes) = 1 /\ stokes[1] \in StokesLetters
         THEN err' = NoErr /\ ret'.t = "plot" /\ ret'.components = stokes
         ELSE err' = "ValueError" /\ ret' = None
    ELSE IF stokes = All
         THEN err' = NoErr /\ ret'.t = "plot" /\ ret'.components = StokesComponents
         ELSE IF Combination(stokes)
         THEN err' = NoErr /\ ret'.t = "plot" /\ ret'.components = stokes
         ELSE err' = "ValueError" /\ ret' = None

\* C14: plot_stokes (once the wavelengths and the title are there) accepts
\* on 1-dimensional data exactly a single letter among I, Q, U, V and on
\* 2-dimensional data exactly "all" or a combination of those letters, and
\* plots the components named in their order; any other string raises
\* ValueError and nothing is plotted.
C14_PlotStokesArgument ==
    [][ ( /\ op'.name = "plot_stokes"
          /\ RankBefore \in {1, 2}
          /\ WaveErr(list[1]) = NoErr
          /\ TitleDatetimeEl(list[1]).err = NoErr )
        => StokesChecked(RankBefore = 1) ]_vars

\* C15: stokes_map (once the wavelength, the title and the extent are there)
\* accepts on 2-dimensional data exactly one letter among I, Q, U, V and on
\* 3-dimensional data exactly "all" or a combination of those letters; any
\* other string raises ValueError and nothing is plotted.
C15_StokesMapArgument ==
    [][ ( /\ op'.name = "stokes_map"
          /\ RankBefore \in {2, 3}
          /\ StokesMapErr(list[1], op'.args[3]) = NoErr )
        => StokesChecked(RankBefore = 2) ]_vars

----------------------------------------------------------------------------
(* Coordinate lookups on observations of every rank *)

\* the largest number of axes of a file
MaxAxes == 5

\* every index that keeps at least one axis of an n-axis observation, and a
\* single integer
AllItems(n) ==
    { TupleItem(c) : c \in {d \in [1..n -> {"slice", "int"}] :
                               \E a \in 1..n : d[a] = "slice"} }
      \cup {ScalarItem}

\* a file with n axes
AxesFile(n) ==
    [kind |-> "fits",
     data |-> Array(<<1, 2>>, "float64", n, MaxDims, 30, "raw"),
     header |-> HdrFITS]

\* observations of files with 1 to MaxAxes axes, whole and sliced
WCSObs ==
    { Construct("CRISP", AxesFile(n), <<>>, FALSE).self : n \in 1..MaxAxes }
      \cup UNION { { GetItem("CRISP", AxesFile(n), FALSE, it).self : it \in AllItems(n) } :
                     n \in 2..MaxAxes }

wave_at(i) ==
    \E idx \in 0..1 :
        Call(i, "wave", <<idx>>, Read(list[i], Wave(list[i], idx)))

to_lonlat_at(i) ==
    \E y \in 0..1, x \in 0..1, coord \in BOOLEAN, unit \in BOOLEAN :
        Call(i, "to_lonlat", <<y, x, coord, unit>>,
             Read(list[i], ToLonLat(list[i], y, x, coord, unit)))

from_lonlat_at(i) ==
    \E lon \in 0..3, lat \in 0..3 :
        Call(i, "from_lonlat", <<lon, lat>>,
             Read(list[i], FromLonLat(list[i], lon, lat)))

InitWCS ==
    /\ list \in { <<o>> : o \in WCSObs }
    /\ seq_full_frame = <<>>
    /\ op = Op("init", <<>>)
    /\ ret = None
    /\ err = NoErr
    /\ built = <<>>

NextWCS ==
    \/ wave_at(1)
    \/ to_lonlat_at(1)
    \/ from_lonlat_at(1)

SpecWCS == InitWCS /\ [][NextWCS]_vars

\* the rank of the WCS of the observation and the axes of the WCS under it
WCSRank == list[1].wcs[1].rank
WCSAxes == list[1].wcs[1].naxis

\* the observation records no index, or a tuple of slices and integers over
\* a 3-axis or 4-axis WCS
IndexStateCovered ==
    \/ ~ HasInd(list[1])
    \/ ~ list[1].ind[1].scalar /\ WCSAxes \in {3, 4}

DimensionErrors == {"IndexError", "NotImplementedError"}

\* C20: wave raises IndexError when the rank is 2 and either no index is
\* recorded or the WCS under the observation has neither 3 nor 4 axes, and
\* NotImplementedError when the rank is outside 1..4; to_lonlat, in its three
\* modes, and from_lonlat raise NotImplementedError when the rank is outside
\* 2..4; in every other case none of them raises either error.
C20_DimensionErrors ==
    [][ /\ op'.name = "wave" =>
             IF WCSRank = 2 /\ (~ HasInd(list[1]) \/ WCSAxes \notin {3, 4})
             THEN err' = "IndexError"
             ELSE IF WCSRank \notin 1..4
             THEN err' = "NotImplementedError"
             ELSE err' \notin DimensionErrors
        /\ op'.name \in {"to_lonlat", "from_lonlat"} =>
             IF WCSRank \notin 2..4
             THEN err' = "NotImplementedError"
             ELSE err' \notin DimensionErrors ]_vars

\* to_lonlat has rejected a spectrum, whose rank is 1, and the object is one
\* that wave accepts
C20_Witness ==
    /\ op.name = "to_lonlat" /\ op.args[4] = TRUE
    /\ err = "NotImplementedError"
    /\ WCSRank = 1
    /\ HasInd(list[1])
    /\ CRISP_wave(list[1]).err = NoErr

\* the recorded component ind[k] if it is a slice, the full axis otherwise
SpectralSlice(o, k) ==
    IF o.ind[1].comps[k] = "slice" THEN (IF k = 1 THEN "ind[0]" ELSE "ind[1]") ELSE ":"

\* the observation records a tuple of slices and integers
IndexIsTuple(o) == HasInd(o) /\ ~ o.ind[1].scalar

\* C21: wave selects the WCS sub-slice from the rank and the recorded index.
\* With an index over a 4-axis WCS (rank 4 or 3) it queries the underlying
\* WCS at [0, s, 0, 0], s being ind[1] if that is a slice and the full axis
\* otherwise; with an index over a 3-axis WCS (rank 3) at [s, 0, 0] with
\* s from ind[0]; with an index at rank 2 it queries the full spectral axis
\* of the underlying WCS; with no index it queries the own WCS of the
\* observation with every other index at 0.  The value is in Angstrom.
C21_WaveSelection ==
    [][ op'.name = "wave" =>
          LET o == list[1]
              q == ret'.v.query
          IN
          /\ (IndexIsTuple(o) /\ WCSAxes = 4 /\ WCSRank \in {3, 4}) =>
                /\ err' = NoErr
                /\ q = Query("_wcs", <<"0", SpectralSlice(o, 2), "0", "0">>)
          /\ (IndexIsTuple(o) /\ WCSAxes = 3 /\ WCSRank = 3) =>
                /\ err' = NoErr
                /\ q = Query("_wcs", <<SpectralSlice(o, 1), "0", "0">>)
          /\ (HasInd(o) /\ WCSRank = 2 /\ WCSAxes \in {3, 4}) =>
                /\ err' = NoErr
                /\ q = Query("_wcs", IF WCSAxes = 4 THEN <<"0", ":", "0", "0">>
                                     ELSE <<":", "0", "0">>)
          /\ (~ HasInd(o) /\ WCSRank \in {1, 3, 4}) =>
                /\ err' = NoErr
                /\ q = Query("wcs", CASE WCSRank = 4 -> <<"0", ":", "0", "0">>
                                      [] WCSRank = 3 -> <<":", "0", "0">>
                                      [] OTHER -> <<":">>)
          /\ err' = NoErr =>
                /\ ret'.v.unit = "Angstrom"
                /\ ret'.v.value
                     = 10 * array_index_to_world(o, q, <<op'.args[2]>>).world[1] ]_vars

\* wave(1) has returned a wavelength of a cube cut out of a four-axis
\* observation along a slice of the spectral axis
C21_Witness ==
    /\ op.name = "wave" /\ op.args[2] = 1
    /\ err = NoErr
    /\ WCSRank = 3 /\ WCSAxes = 4
    /\ list[1].ind[1].comps[2] = "slice"
    /\ ret.v.query = Query("_wcs", <<"0", "ind[1]", "0", "0">>)
    /\ ret.v.unit = "Angstrom"
    /\ ret.v.value = 40

----------------------------------------------------------------------------
(* Properties of one observation *)

\* the step is a call of name on observation 1
Called(name) == op'.name = name

\* the step is a call of name with sep as its first argument
CalledSep(name, sep) == op'.name = name /\ op'.args[2] = sep

\* the step is one of the two in-place operations
InPlaceCall ==
    \/ CalledSep("rotate_crop", FALSE)
    \/ CalledSep("reconstruct_full_frame", FALSE)

C2_RotateCropInPlace ==
    [][ (CalledSep("rotate_crop", FALSE) /\ err' = NoErr) =>
          LET before == list[1].file[1]
              after == list'[1].file[1]
              rc == rotate_crop_data(before.data)
          IN  /\ after.data = rc.crop
              /\ list'[1].full_frame = <<before.data>>
              /\ DOMAIN after.header = (DOMAIN before.header) \cup (DOMAIN rc.crop_dict)
              /\ \A k \in DOMAIN rc.crop_dict : after.header[k] = rc.crop_dict[k]
              /\ \A k \in (DOMAIN before.header) \ (DOMAIN rc.crop_dict) :
                    after.header[k] = before.header[k]
              /\ list'[1].rotate = TRUE
              /\ ret' = None ]_vars

\* a rotate_crop(sep=False) has succeeded on an array other than the one it
\* left, with header keys outside the crop metadata
C2_Witness ==
    /\ op.name = "rotate_crop" /\ op.args[2] = FALSE /\ err = NoErr
    /\ list[1].rotate
    /\ list[1].full_frame # <<>>
    /\ list[1].full_frame[1] # list[1].file[1].data
    /\ "DATE-AVG" \in DOMAIN list[1].file[1].header
    /\ list[1].file[1].header["frame_dims"] = MaxDims

\* C3: reconstruct_full_frame(sep=False) replaces the stored array with the
\* full frame computed from the six crop keys of the header and the current
\* array, stores the array held before the call in rot_data, clears rotate,
\* returns None and leaves the stored header unchanged.
C3_ReconstructInPlace ==
    [][ (CalledSep("reconstruct_full_frame", FALSE) /\ err' = NoErr) =>
          LET before == list[1].file[1]
              after == list'[1].file[1]
              crop_dict == [k \in CropKeys |-> before.header[k]]
          IN  /\ CropKeys \subseteq DOMAIN before.header
              /\ after.data = reconstruct_full_frame(crop_dict, before.data).full
              /\ list'[1].rot_data = <<before.data>>
              /\ list'[1].rotate = FALSE
              /\ ret' = None
              /\ after.header = before.header ]_vars

\* a reconstruct_full_frame(sep=False) has succeeded
C3_Witness ==
    /\ op.name = "reconstruct_full_frame" /\ op.args[2] = FALSE /\ err = NoErr
    /\ ~ list[1].rotate
    /\ list[1].rot_data # <<>>
    /\ list[1].file[1].data.kind = "full"
    /\ list[1].file[1].data.dims = list[1].file[1].header["frame_dims"]
    /\ list[1].rot_data[1].kind = "crop"

\* C4: with sep=True, rotate_crop returns the rotated array with its crop
\* metadata and reconstruct_full_frame returns the full frame, and neither
\* changes the object.
C4_SepLeavesObject ==
    [][ /\ CalledSep("rotate_crop", TRUE) =>
            /\ list'[1] = list[1]
            /\ err' = NoErr =>
                 LET rc == rotate_crop_data(list[1].file[1].data) IN
                 ret' = [t |-> "tuple", crop |-> rc.crop, crop_dict |-> rc.crop_dict]
        /\ CalledSep("reconstruct_full_frame", TRUE) =>
            /\ list'[1] = list[1]
            /\ err' = NoErr =>
                 ret' = [t |-> "array",
                         a |-> reconstruct_full_frame(
                                 [k \in CropKeys |-> list[1].file[1].header[k]],
                                 list[1].file[1].data).full] ]_vars

\* a rotate_crop(sep=True) has returned its arrays on an object that was
\* not rotated before
C4_Witness ==
    /\ op.name = "rotate_crop" /\ op.args[2] = TRUE /\ err = NoErr
    /\ ret.t = "tuple"
    /\ ~ list[1].rotate
    /\ list[1].full_frame = <<>>

----------------------------------------------------------------------------
(* Properties of a sequence *)

\* the stored array, the stored header and the rotate flag of an observation
Core(o) == <<o.file, o.rotate>>

\* the step is CRISPSequence.rotate_crop with this sep
SeqRotateCropCalled(sep) == op'.name = "seq_rotate_crop" /\ op'.args[2] = sep

\* C5: CRISPSequence.rotate_crop(sep=True) returns the rotated arrays and
\* does not alter the sequence, whatever diff_t is: no element's stored
\* array, header or rotate flag changes, and the list returned holds the
\* rotated arrays, not None values.
C5_SeqSepLeavesSequence ==
    [][ SeqRotateCropCalled(TRUE) =>
          /\ \A k \in DOMAIN list : Core(list'[k]) = Core(list[k])
          /\ (err' = NoErr /\ ret'.t = "list") =>
                \A j \in DOMAIN ret'.vals : ret'.vals[j] # None ]_vars

\* C6: CRISPSequence.rotate_crop(sep=False) keeps, for every element, the
\* data the element held before the call in that element's own full_frame.
C6_SeqKeepsOriginalsInElements ==
    [][ (SeqRotateCropCalled(FALSE) /\ err' = NoErr) =>
          \A k \in DOMAIN list : list'[k].full_frame = <<list[k].file[1].data>> ]_vars

\* the step is one of the four rotation operations
RotationCall ==
    op'.name \in {"rotate_crop", "reconstruct_full_frame",
                  "seq_rotate_crop", "seq_reconstruct_full_frame"}

\* the step is a sequence operation that works through the elements in
\* order, changing each as it goes
LoopedCall ==
    \/ op'.name = "seq_reconstruct_full_frame" /\ op'.args[2] = FALSE
    \/ op'.name = "seq_rotate_crop" /\ op'.args[3] = TRUE

\* what that operation does to one element
ElementCall(o) ==
    IF op'.name = "seq_reconstruct_full_frame"
    THEN CRISP_reconstruct_full_frame(o, FALSE)
    ELSE CRISP_rotate_crop(o, FALSE)

----------------------------------------------------------------------------
(* Reconstructing without crop metadata *)

\* the header of the observation lacks one of the six crop keys
LacksCropKey(o) == ~ (CropKeys \subseteq DOMAIN CRISP_header(o))

\* C19: reconstruct_full_frame, with either sep, on an observation whose
\* header lacks any of the six crop keys fails with an error and leaves the
\* stored array, rot_data and rotate as they were.
C19_ReconstructNeedsCropKeys ==
    [][ (op'.name = "reconstruct_full_frame" /\ LacksCropKey(list[op'.args[1]])) =>
          /\ err' \in {"AssertionError", "KeyError"}
          /\ ret' = None
          /\ list' = list ]_vars

\* reconstruct_full_frame(sep=False) has failed on an observation whose
\* header has frame_dims but not x_min, and rot_data is still unset
C19_Witness ==
    /\ op.name = "reconstruct_full_frame" /\ op.args[2] = FALSE
    /\ err = "KeyError"
    /\ "frame_dims" \in DOMAIN CRISP_header(list[1])
    /\ "x_min" \notin DOMAIN CRISP_header(list[1])
    /\ list[1].rot_data = <<>>

====
